---- MODULE Spec2Model ----
(***************************************************************************)
(* Transaction synchronisation and auto-categorisation engine of           *)
(* mint-bean: PlaidService.sync_transactions, apply_auto_categorization    *)
(* (backend/app/services/plaid_service.py), RuleEngine                     *)
(* (backend/app/services/rule_engine.py) and the PATCH endpoint            *)
(* update_transaction (backend/app/api/v1/transactions.py).                *)
(*                                                                         *)
(* Strings are tuples of one-character strings, None is the value Null,    *)
(* a category id of 0 stands for NULL (ids are autoincrement, from 1).     *)
(***************************************************************************)
EXTENDS Integers, Sequences, FiniteSets, TLC

\* ------------------------------------------------------------------------
\* Bounds of the model
\* ------------------------------------------------------------------------
MaxPages == 2
MaxSyncs == 2
MaxEdits == 1
MaxCalls == 2
MaxRules == 2
MaxChildren == 2
MaxBatch == 2

\* ------------------------------------------------------------------------
\* Python values as seen by the rule engine
\* ------------------------------------------------------------------------
Null == [k |-> "null", s |-> <<>>, n |-> 0]
StrV(s) == [k |-> "str", s |-> s, n |-> 0]
IntV(n) == [k |-> "int", s |-> <<>>, n |-> n]
FloatV(n) == [k |-> "float", s |-> <<>>, n |-> n]
BoolV(b) == [k |-> "bool", s |-> <<>>, n |-> IF b THEN 1 ELSE 0]

IsNull(v) == v.k = "null"

\* field or "" / 0 / None is falsy in Python
Truthy(v) ==
  CASE v.k = "null" -> FALSE
    [] v.k = "str" -> v.s # <<>>
    [] OTHER -> v.n # 0

DigitChar(d) == <<"0", "1", "2", "3", "4", "5", "6", "7", "8", "9">>[d + 1]

RECURSIVE NatStr(_)
NatStr(n) == IF n < 10 THEN <<DigitChar(n)>> ELSE NatStr(n \div 10) \o <<DigitChar(n % 10)>>

IntStr(n) == IF n < 0 THEN <<"-">> \o NatStr(-n) ELSE NatStr(n)

\* str(value)
PyStr(v) ==
  CASE v.k = "str" -> v.s
    [] v.k = "int" -> IntStr(v.n)
    [] v.k = "float" -> IntStr(v.n) \o <<".", "0">>
    [] v.k = "bool" -> IF v.n = 1 THEN <<"T", "r", "u", "e">> ELSE <<"F", "a", "l", "s", "e">>
    [] OTHER -> <<"N", "o", "n", "e">>

UpperCase ==
  <<"A", "B", "C", "D", "E", "F", "G", "H", "I", "J", "K", "L", "M",
    "N", "O", "P", "Q", "R", "S", "T", "U", "V", "W", "X", "Y", "Z">>

LowerCase ==
  <<"a", "b", "c", "d", "e", "f", "g", "h", "i", "j", "k", "l", "m",
    "n", "o", "p", "q", "r", "s", "t", "u", "v", "w", "x", "y", "z">>

LowerChar(c) ==
  IF \E k \in 1..26 : UpperCase[k] = c
    THEN LowerCase[CHOOSE k \in 1..26 : UpperCase[k] = c]
    ELSE c

\* str.lower()
Lower(s) == [i \in 1..Len(s) |-> LowerChar(s[i])]

DigitVal(c) ==
  CASE c = "0" -> 0 [] c = "1" -> 1 [] c = "2" -> 2 [] c = "3" -> 3 [] c = "4" -> 4
    [] c = "5" -> 5 [] c = "6" -> 6 [] c = "7" -> 7 [] c = "8" -> 8 [] c = "9" -> 9
    [] OTHER -> -1

IsDigits(s) == Len(s) > 0 /\ \A i \in 1..Len(s) : DigitVal(s[i]) >= 0

RECURSIVE DigitsVal(_)
DigitsVal(s) == IF Len(s) = 0 THEN 0 ELSE 10 * DigitsVal(SubSeq(s, 1, Len(s) - 1)) + DigitVal(s[Len(s)])

\* integral part of a decimal literal whose fraction, if any, is ".0"
StripFrac(s) ==
  IF Len(s) >= 2 /\ s[Len(s) - 1] = "." /\ s[Len(s)] = "0" THEN SubSeq(s, 1, Len(s) - 2) ELSE s

\* float(value): [ok, n]; ok = FALSE stands for ValueError / TypeError
PyFloat(v) ==
  CASE v.k \in {"int", "float", "bool"} -> [ok |-> TRUE, n |-> v.n]
    [] v.k = "str" ->
         LET Parse(neg, body) ==
               IF IsDigits(body)
                 THEN [ok |-> TRUE, n |-> IF neg THEN -DigitsVal(body) ELSE DigitsVal(body)]
                 ELSE [ok |-> FALSE, n |-> 0]
         IN IF Len(v.s) > 0 /\ v.s[1] = "-"
              THEN Parse(TRUE, StripFrac(Tail(v.s)))
              ELSE Parse(FALSE, StripFrac(v.s))
    [] OTHER -> [ok |-> FALSE, n |-> 0]

\* sub in s
Contains(sub, s) ==
  \E i \in 0..(Len(s) - Len(sub)) : \A j \in 1..Len(sub) : s[i + j] = sub[j]

StartsWith(s, pre) == Len(pre) <= Len(s) /\ \A j \in 1..Len(pre) : s[j] = pre[j]

EndsWith(s, suf) ==
  Len(suf) <= Len(s) /\ \A j \in 1..Len(suf) : s[Len(s) - Len(suf) + j] = suf[j]

\* re.compile raises re.error: an unbalanced parenthesis
RegexInvalid(pat) ==
  Cardinality({i \in 1..Len(pat) : pat[i] = "("}) # Cardinality({i \in 1..Len(pat) : pat[i] = ")"})

\* re.compile raises OverflowError, which is not an re.error: a repetition
\* count x{n} of more than ten digits, that is, beyond the engine's MAXREPEAT
\* of 4294967295
RegexOverflows(pat) ==
  \E i, j \in 1..Len(pat) :
    /\ i > 1 /\ pat[i] = "{" /\ pat[j] = "}" /\ j - i > 11
    /\ DigitVal(pat[i - 1]) < 0
    /\ DigitVal(pat[i + 1]) > 0
    /\ \A k \in (i + 1)..(j - 1) : DigitVal(pat[k]) >= 0

\* re.search(pat, s, re.IGNORECASE) for patterns of literals and "."
RegexSearch(pat, s) ==
  \E i \in 0..(Len(s) - Len(pat)) :
    \A j \in 1..Len(pat) : pat[j] = "." \/ LowerChar(s[i + j]) = LowerChar(pat[j])


\* ------------------------------------------------------------------------
\* Stored rows
\* ------------------------------------------------------------------------
\* Category rows (id, name); ids are autoincrement and start at 1
Categories == << [id |-> 1, name |-> <<"G">>], [id |-> 2, name |-> <<"H">>] >>

NoCategory == 0

\* index of the Account row that Transaction.account_id references, or 0
AccountOf(accounts, t) ==
  LET hits == {a \in 1..Len(accounts) : accounts[a].id = t.account_id}
  IN IF hits = {} THEN 0 ELSE CHOOSE a \in hits : \A b \in hits : a <= b

\* ------------------------------------------------------------------------
\* RuleEngine
\* ------------------------------------------------------------------------
\* RuleEngine._get_field_value: getattr with dotted paths, None when absent
get_field_value(accounts, t, field) ==
  CASE field = "description" -> t.description
    [] field = "payee" -> t.payee
    [] field = "merchant_name" -> t.merchant_name
    [] field = "amount" -> FloatV(t.amount)
    [] field = "pending" -> BoolV(t.pending)
    [] field = "reviewed" -> BoolV(t.reviewed)
    [] field = "category_id" -> IF t.category_id = NoCategory THEN Null ELSE IntV(t.category_id)
    [] field = "plaid_primary_category" -> t.plaid_primary_category
    [] field = "plaid_detailed_category" -> t.plaid_detailed_category
    [] field = "account.name" ->
         LET a == AccountOf(accounts, t) IN IF a = 0 THEN Null ELSE accounts[a].name
    [] OTHER -> Null

StringOperators ==
  {"equals", "not_equals", "contains", "not_contains", "starts_with", "ends_with", "regex"}

NumericOperators ==
  {"greater_than", "less_than", "greater_than_or_equal", "less_than_or_equal"}

\* a comparison of None by null-equality: equals with null, not_equals with
\* anything else
NullCompare_symmetric(operator, expected_value) ==
  IF operator = "equals" THEN IsNull(expected_value) ELSE ~IsNull(expected_value)

\* "if field_value is None: return operator == 'equals' and expected_value is None"
NullCompare(operator, expected_value) == operator = "equals" /\ IsNull(expected_value)

\* RuleEngine._apply_operator
apply_operator(field_value, operator, expected_value) ==
  IF IsNull(field_value) THEN NullCompare(operator, expected_value)
  ELSE IF operator \in StringOperators THEN
    LET Compare(field_str, expected_str) ==
          CASE operator = "equals" -> field_str = expected_str
            [] operator = "not_equals" -> field_str # expected_str
            [] operator = "contains" -> Contains(expected_str, field_str)
            [] operator = "not_contains" -> ~Contains(expected_str, field_str)
            [] operator = "starts_with" -> StartsWith(field_str, expected_str)
            [] operator = "ends_with" -> EndsWith(field_str, expected_str)
            [] OTHER -> IF RegexInvalid(expected_str) THEN FALSE
                        ELSE RegexSearch(expected_str, field_str)
    IN Compare(Lower(PyStr(field_value)),
               IF IsNull(expected_value) THEN <<>> ELSE Lower(PyStr(expected_value)))
  ELSE IF operator \in NumericOperators THEN
    LET Compare(f, e) ==
          IF ~f.ok \/ ~e.ok THEN FALSE
          ELSE CASE operator = "greater_than" -> f.n > e.n
                 [] operator = "less_than" -> f.n < e.n
                 [] operator = "greater_than_or_equal" -> f.n >= e.n
                 [] OTHER -> f.n <= e.n
    IN Compare(PyFloat(field_value), PyFloat(expected_value))
  ELSE FALSE

\* A condition is a leaf  [type |-> "leaf", field, operator, value, children |-> <<>>]
\* or a composite         [type |-> "all" | "any", children |-> <<c1, ..., cn>>, ...];
\* a missing "field" or "operator" key is the empty string.
Leaf(f, op, v) == [type |-> "leaf", field |-> f, operator |-> op, value |-> v, children |-> <<>>]
AllOf(cs) == [type |-> "all", field |-> "", operator |-> "", value |-> Null, children |-> cs]
AnyOf(cs) == [type |-> "any", field |-> "", operator |-> "", value |-> Null, children |-> cs]
\* a conditions column whose text json.loads rejects
Malformed == [type |-> "malformed", field |-> "", operator |-> "", value |-> Null, children |-> <<>>]

\* RuleEngine._evaluate_condition
RECURSIVE evaluate_condition(_, _, _)
evaluate_condition(accounts, t, condition) ==
  IF condition.type = "all" THEN
    \A c \in 1..Len(condition.children) : evaluate_condition(accounts, t, condition.children[c])
  ELSE IF condition.type = "any" THEN
    \E c \in 1..Len(condition.children) : evaluate_condition(accounts, t, condition.children[c])
  ELSE IF condition.field = "" \/ condition.operator = "" THEN FALSE
  ELSE LET Test(field_value) ==
             IF IsNull(field_value) /\ condition.operator \notin {"equals", "not_equals"} THEN FALSE
             ELSE apply_operator(field_value, condition.operator, condition.value)
       IN Test(get_field_value(accounts, t, condition.field))

\* _apply_operator raises: "except re.error" lets every other exception of
\* re.search pass
operator_raises(field_value, operator, expected_value) ==
  /\ ~IsNull(field_value)
  /\ operator = "regex"
  /\ ~IsNull(expected_value)
  /\ RegexOverflows(Lower(PyStr(expected_value)))

\* _evaluate_condition raises: all() and any() stop at the first child that
\* decides, so a child raises only when every child before it was evaluated
\* and did not decide
RECURSIVE evaluate_raises(_, _, _)
evaluate_raises(accounts, t, condition) ==
  LET Reached(k, decides) ==
        \A j \in 1..(k - 1) :
          /\ ~evaluate_raises(accounts, t, condition.children[j])
          /\ evaluate_condition(accounts, t, condition.children[j]) # decides
  IN IF condition.type = "all" THEN
       \E k \in 1..Len(condition.children) :
         Reached(k, FALSE) /\ evaluate_raises(accounts, t, condition.children[k])
     ELSE IF condition.type = "any" THEN
       \E k \in 1..Len(condition.children) :
         Reached(k, TRUE) /\ evaluate_raises(accounts, t, condition.children[k])
     ELSE IF condition.field = "" \/ condition.operator = "" THEN FALSE
     ELSE LET Test(field_value) ==
                IF IsNull(field_value) /\ condition.operator \notin {"equals", "not_equals"} THEN FALSE
                ELSE operator_raises(field_value, condition.operator, condition.value)
          IN Test(get_field_value(accounts, t, condition.field))

\* a matcher that takes a composite without children for a mismatch
matches_conditions_nonempty(accounts, t, rule) ==
  IF rule.conditions.type \in {"all", "any"} /\ rule.conditions.children = <<>> THEN FALSE
  ELSE evaluate_condition(accounts, t, rule.conditions)

\* RuleEngine._matches_conditions
matches_conditions(accounts, t, rule) == evaluate_condition(accounts, t, rule.conditions)

\* json.loads(rule.conditions) raises json.JSONDecodeError, a ValueError
conditions_raise(rule) == rule.conditions.type = "malformed"

\* Category.name == value, first(): id of the category of that name, or 0
CategoryByName(name) ==
  LET hits == {c \in 1..Len(Categories) : Categories[c].name = name}
  IN IF hits = {} THEN NoCategory ELSE Categories[CHOOSE c \in hits : \A d \in hits : c <= d].id

\* An action set is the parsed JSON object: the keys present and their values
Actions(keys, cat, payee, tagsOk, tags, reviewed) ==
  [keys |-> keys, set_category |-> cat, set_payee |-> payee,
   add_tags_is_list |-> tagsOk, add_tags |-> tags, set_reviewed |-> reviewed]

NoActions == Actions({}, Null, Null, FALSE, {}, Null)

\* RuleEngine._apply_actions
apply_actions(t, actions) ==
  LET set_category(t0, v) ==
        IF "set_category" \in actions.keys
          THEN [t0 EXCEPT
                  !.category_id =
                    IF v.k \in {"int", "bool"} THEN v.n
                    ELSE IF v.k = "str"
                      THEN (IF CategoryByName(v.s) # NoCategory
                              THEN CategoryByName(v.s) ELSE t0.category_id)
                    ELSE t0.category_id,
                  !.auto_categorized = TRUE,
                  !.categorization_method = "rule"]
          ELSE t0
      set_payee(t1) ==
        IF "set_payee" \in actions.keys THEN [t1 EXCEPT !.payee = actions.set_payee] ELSE t1
      add_tags(t2) ==
        IF "add_tags" \in actions.keys /\ actions.add_tags_is_list
          THEN [t2 EXCEPT !.tags = @ \cup actions.add_tags] ELSE t2
      set_reviewed(t3) ==
        IF "set_reviewed" \in actions.keys
          THEN [t3 EXCEPT !.reviewed = Truthy(actions.set_reviewed)] ELSE t3
  IN set_reviewed(add_tags(set_payee(set_category(t, actions.set_category))))

\* the rules query with the order reversed
RuleOrder_ascending(rules, tie) ==
  LET idx == [i \in 1..Len(rules) |-> i]
      active == SelectSeq(idx, LAMBDA i : rules[i].active)
  IN SortSeq(active, LAMBDA a, b :
       rules[a].priority < rules[b].priority
       \/ (rules[a].priority = rules[b].priority /\ tie[a] < tie[b]))

\* query(Rule).filter(Rule.active).order_by(Rule.priority.desc()).all():
\* the indices of the active rules, highest priority first; the order of rules
\* of equal priority is the database's choice, given here by the ranking tie.
RuleOrder(rules, tie) ==
  LET idx == [i \in 1..Len(rules) |-> i]
      active == SelectSeq(idx, LAMBDA i : rules[i].active)
  IN SortSeq(active, LAMBDA a, b :
       rules[a].priority > rules[b].priority
       \/ (rules[a].priority = rules[b].priority /\ tie[a] < tie[b]))

\* a rule engine that applies the actions on every call
Applies_always(apply_changes) == TRUE

\* "if apply_changes: self._apply_actions(transaction, actions)"
Applies(apply_changes) == apply_changes

\* RuleEngine.apply_rules on row i of db.txns.  The loop stops at the first
\* rule, in query order, that matches or whose conditions do not load; the
\* exception of the latter is caught nowhere in apply_rules (raised).  A match
\* ends in db.commit() (committed).
apply_rules(db, i, apply_changes, now, tie) ==
  LET Stopping(order) ==
        {k \in 1..Len(order) :
           \/ conditions_raise(db.rules[order[k]])
           \/ matches_conditions(db.accounts, db.txns[i], db.rules[order[k]])}
      \* the first matching rule r: its actions, then its statistics
      Matched(r) ==
        [db |-> [db EXCEPT
                   !.txns[i] = IF Applies(apply_changes) THEN apply_actions(@, db.rules[r].actions) ELSE @,
                   !.rules[r].match_count = @ + 1,
                   !.rules[r].last_matched_at = now],
         matched |-> TRUE, rule |-> r, actions |-> db.rules[r].actions,
         raised |-> FALSE, committed |-> TRUE]
      Unmatched(raised) ==
        [db |-> db, matched |-> FALSE, rule |-> 0, actions |-> NoActions,
         raised |-> raised, committed |-> FALSE]
      Stop(r) == IF conditions_raise(db.rules[r]) THEN Unmatched(TRUE) ELSE Matched(r)
      Loop(order, hits) ==
        IF hits = {} THEN Unmatched(FALSE)
        ELSE Stop(order[CHOOSE k \in hits : \A m \in hits : k <= m])
      Query(order) == Loop(order, Stopping(order))
  IN Query(RuleOrder(db.rules, tie))


\* ------------------------------------------------------------------------
\* AutoCategorizationCascade
\* ------------------------------------------------------------------------
\* the mapping query ordered by confidence alone
resolve_mapping_by_confidence(maps, t, tie) ==
  LET cand == {m \in 1..Len(maps) :
                 /\ maps[m].plaid_primary_category = t.plaid_primary_category.s
                 /\ maps[m].auto_apply
                 /\ \/ IsNull(maps[m].plaid_detailed_category)
                    \/ /\ ~IsNull(t.plaid_detailed_category)
                       /\ maps[m].plaid_detailed_category = t.plaid_detailed_category}
      Before(a, b) ==
        \/ maps[a].confidence > maps[b].confidence
        \/ maps[a].confidence = maps[b].confidence /\ tie[a] < tie[b]
  IN IF cand = {} THEN 0 ELSE CHOOSE m \in cand : \A o \in cand \ {m} : Before(m, o)

\* The PlaidCategoryMapping query of apply_auto_categorization: auto_apply
\* mappings of the transaction's primary code whose detailed code is NULL or
\* the transaction's, detailed ones first, then by confidence descending;
\* first() of it, as a row index, or 0.  Rows the ORDER BY leaves equal come
\* in the database's order, given by the ranking tie.
resolve_mapping(maps, t, tie) ==
  LET cand == {m \in 1..Len(maps) :
                 /\ maps[m].plaid_primary_category = t.plaid_primary_category.s
                 /\ maps[m].auto_apply
                 /\ \/ IsNull(maps[m].plaid_detailed_category)
                    \/ /\ ~IsNull(t.plaid_detailed_category)
                       /\ maps[m].plaid_detailed_category = t.plaid_detailed_category}
      Before(a, b) ==
        LET da == ~IsNull(maps[a].plaid_detailed_category)
            db == ~IsNull(maps[b].plaid_detailed_category)
        IN \/ da /\ ~db
           \/ da = db /\ maps[a].confidence > maps[b].confidence
           \/ da = db /\ maps[a].confidence = maps[b].confidence /\ tie[a] < tie[b]
  IN IF cand = {} THEN 0 ELSE CHOOSE m \in cand : \A o \in cand \ {m} : Before(m, o)

\* "transaction.category_id and not transaction.auto_categorized"
ManuallyCategorized_inverted(t) == t.category_id # NoCategory /\ t.auto_categorized

ManuallyCategorized(t) == t.category_id # NoCategory /\ ~t.auto_categorized

NoResult == [method |-> "none", category_id |-> NoCategory, confidence |-> -1]

\* a Cascade that reports a rule whenever one matched
Ruled_any(r) == r.matched

\* "if actions and 'set_category' in actions" on what apply_rules returned
Ruled(r) == r.matched /\ "set_category" \in r.actions.keys

\* the Cascade consulting the rule engine before the mappings
apply_auto_categorization_rules_first(db0, i, now, plan) ==
  LET ByMapping(db, m, committed) ==
        IF m # 0
          THEN [db |-> [db EXCEPT
                          !.txns[i].category_id = db.maps[m].category_id,
                          !.txns[i].auto_categorized = TRUE,
                          !.txns[i].categorization_method = "plaid_mapping",
                          !.maps[m].match_count = @ + 1,
                          !.maps[m].last_matched_at = now],
                result |-> [method |-> "plaid_mapping",
                            category_id |-> db.maps[m].category_id,
                            confidence |-> db.maps[m].confidence],
                raised |-> FALSE, committed |-> committed]
          ELSE [db |-> db, result |-> NoResult, raised |-> FALSE, committed |-> committed]
      ByRules(r) ==
        IF Ruled(r)
          THEN [db |-> r.db,
                result |-> [method |-> "rule",
                            category_id |-> r.db.txns[i].category_id,
                            confidence |-> -1],
                raised |-> FALSE, committed |-> TRUE]
          ELSE IF r.raised
            THEN [db |-> r.db, result |-> NoResult, raised |-> TRUE, committed |-> FALSE]
          ELSE ByMapping(r.db, IF Truthy(r.db.txns[i].plaid_primary_category)
                                 THEN resolve_mapping(r.db.maps, r.db.txns[i], plan.maps)
                                 ELSE 0, r.committed)
      Cascade(db, t) ==
        IF ManuallyCategorized(t)
          THEN [db |-> db, result |-> [NoResult EXCEPT !.category_id = t.category_id],
                raised |-> FALSE, committed |-> FALSE]
          ELSE ByRules(apply_rules(db, i, TRUE, now, plan.rules))
  IN Cascade([db0 EXCEPT !.calls = @ + 1], db0.txns[i])

\* PlaidService.apply_auto_categorization on row i of db.txns; plan gives the
\* database's order of equal rows for the two queries.  db.calls counts the
\* invocations.  raised: the rule engine's exception passes through;
\* committed: the session was committed by the rule engine during the call.
apply_auto_categorization(db0, i, now, plan) ==
  LET \* 3. the rule engine
      ByRules(r) ==
        IF Ruled(r)
          THEN [db |-> r.db,
                result |-> [method |-> "rule",
                            category_id |-> r.db.txns[i].category_id,
                            confidence |-> -1],
                raised |-> FALSE, committed |-> TRUE]
          ELSE [db |-> r.db, result |-> NoResult, raised |-> r.raised, committed |-> r.committed]
      \* 2. the mapping m the query returned, if any
      ByMapping(db, m) ==
        IF m # 0
          THEN [db |-> [db EXCEPT
                          !.txns[i].category_id = db.maps[m].category_id,
                          !.txns[i].auto_categorized = TRUE,
                          !.txns[i].categorization_method = "plaid_mapping",
                          !.maps[m].match_count = @ + 1,
                          !.maps[m].last_matched_at = now],
                result |-> [method |-> "plaid_mapping",
                            category_id |-> db.maps[m].category_id,
                            confidence |-> db.maps[m].confidence],
                raised |-> FALSE, committed |-> FALSE]
          ELSE ByRules(apply_rules(db, i, TRUE, now, plan.rules))
      \* 1. manually categorized transactions are skipped
      Cascade(db, t) ==
        IF ManuallyCategorized(t)
          THEN [db |-> db, result |-> [NoResult EXCEPT !.category_id = t.category_id],
                raised |-> FALSE, committed |-> FALSE]
          ELSE ByMapping(db, IF Truthy(t.plaid_primary_category)
                               THEN resolve_mapping(db.maps, t, plan.maps) ELSE 0)
  IN Cascade([db0 EXCEPT !.calls = @ + 1], db0.txns[i])


\* ------------------------------------------------------------------------
\* Reconciler: one page of transactions/sync applied to the session
\* ------------------------------------------------------------------------
\* query(Transaction).filter(plaid_transaction_id == id).first(): row index or 0
FindByPlaidId(txns, id) ==
  LET hits == {k \in 1..Len(txns) : txns[k].plaid_transaction_id = id}
  IN IF hits = {} THEN 0 ELSE CHOOSE k \in hits : \A m \in hits : k <= m

\* account_map.get(plaid_account_id): id of the account row, or 0
AccountMapGet(account_map, plaid_account_id) ==
  IF plaid_account_id \in DOMAIN account_map THEN account_map[plaid_account_id] ELSE 0

\* merchant_name or name
PayeeOf(rec) == IF Truthy(rec.merchant_name) THEN rec.merchant_name ELSE rec.name

\* Transaction(...) storing the feed's amount as it comes
NewTransaction_unsigned(rec, account_id) ==
  [plaid_transaction_id |-> rec.transaction_id,
   account_id |-> account_id,
   date |-> rec.date,
   description |-> rec.name,
   payee |-> PayeeOf(rec),
   merchant_name |-> rec.merchant_name,
   amount |-> rec.amount,
   pending |-> rec.pending,
   reviewed |-> FALSE,
   tags |-> {},
   category_id |-> NoCategory,
   auto_categorized |-> FALSE,
   categorization_method |-> "none",
   plaid_primary_category |-> rec.primary,
   plaid_detailed_category |-> rec.detailed]

\* Transaction(...) of the added branch
NewTransaction(rec, account_id) ==
  [plaid_transaction_id |-> rec.transaction_id,
   account_id |-> account_id,
   date |-> rec.date,
   description |-> rec.name,
   payee |-> PayeeOf(rec),
   merchant_name |-> rec.merchant_name,
   amount |-> -rec.amount,
   pending |-> rec.pending,
   reviewed |-> FALSE,
   tags |-> {},
   category_id |-> NoCategory,
   auto_categorized |-> FALSE,
   categorization_method |-> "none",
   plaid_primary_category |-> rec.primary,
   plaid_detailed_category |-> rec.detailed]

\* the added branch without the lookup of an existing transaction
ProcessAdded_unchecked(st, account_map, rec, now, plan) ==
  LET account == AccountMapGet(account_map, rec.account_id)
  IN IF account = 0 THEN st
     ELSE LET db1 == [st.db EXCEPT !.txns = Append(@, NewTransaction(rec, account))]
              c == apply_auto_categorization(db1, Len(db1.txns), now, plan)
          IN [st EXCEPT !.db = c.db, !.added = @ + 1]

\* the added branch counting a record it skips
ProcessAdded_counting(st, account_map, rec, now, plan) ==
  LET account == AccountMapGet(account_map, rec.account_id)
  IN IF account = 0 THEN st
     ELSE IF FindByPlaidId(st.db.txns, rec.transaction_id) # 0 THEN [st EXCEPT !.added = @ + 1]
     ELSE LET db1 == [st.db EXCEPT !.txns = Append(@, NewTransaction(rec, account))]
              c == apply_auto_categorization(db1, Len(db1.txns), now, plan)
          IN [st EXCEPT !.db = c.db, !.added = @ + 1]

\* the added branch storing a record of an unknown account as well
ProcessAdded_fabricating(st, account_map, rec, now, plan) ==
  LET account == AccountMapGet(account_map, rec.account_id)
  IN IF FindByPlaidId(st.db.txns, rec.transaction_id) # 0 THEN st
     ELSE LET db1 == [st.db EXCEPT !.txns = Append(@, NewTransaction(rec, account))]
              c == apply_auto_categorization(db1, Len(db1.txns), now, plan)
          IN [st EXCEPT !.db = c.db, !.added = @ + 1]

\* what a call of the Cascade leaves of the page's state: an exception ends
\* the loops of the page (raised), a commit inside the call makes everything
\* the session holds durable (saved)
AfterCascade(st, c) ==
  [st EXCEPT !.db = c.db,
             !.raised = c.raised,
             !.saved = IF c.committed THEN c.db ELSE @]

\* body of "for plaid_txn in response.added"; st = [db, added, modified, removed]
ProcessAdded(st, account_map, rec, now, plan) ==
  LET account == AccountMapGet(account_map, rec.account_id)
      Counted(s) == IF s.raised THEN s ELSE [s EXCEPT !.added = @ + 1]
      Insert(db1) ==
        Counted(AfterCascade(st, apply_auto_categorization(db1, Len(db1.txns), now, plan)))
  IN IF st.raised THEN st
     ELSE IF account = 0 THEN st
     ELSE IF FindByPlaidId(st.db.txns, rec.transaction_id) # 0 THEN st
     ELSE Insert([st.db EXCEPT !.txns = Append(@, NewTransaction(rec, account))])

\* the modified branch categorizing before it has copied the record's fields
ProcessModified_stale(st, rec, now, plan) ==
  LET i == FindByPlaidId(st.db.txns, rec.transaction_id)
  IN IF i = 0 THEN st
     ELSE LET existing == st.db.txns[i]
              db1 == IF (existing.pending /\ ~rec.pending) \/ existing.category_id = NoCategory
                       THEN apply_auto_categorization(st.db, i, now, plan).db
                       ELSE st.db
              db2 == [db1 EXCEPT !.txns[i].date = rec.date,
                                 !.txns[i].description = rec.name,
                                 !.txns[i].payee = PayeeOf(rec),
                                 !.txns[i].amount = -rec.amount,
                                 !.txns[i].pending = rec.pending,
                                 !.txns[i].plaid_primary_category = rec.primary,
                                 !.txns[i].plaid_detailed_category = rec.detailed,
                                 !.txns[i].merchant_name = rec.merchant_name]
          IN [st EXCEPT !.db = db2, !.modified = @ + 1]

\* the modified branch re-categorizing every transaction it updates
ProcessModified_always(st, rec, now, plan) ==
  LET i == FindByPlaidId(st.db.txns, rec.transaction_id)
  IN IF st.raised \/ i = 0 THEN st
     ELSE LET Counted(s) == IF s.raised THEN s ELSE [s EXCEPT !.modified = @ + 1]
              Update(db1) == AfterCascade(st, apply_auto_categorization(db1, i, now, plan))
          IN Counted(Update([st.db EXCEPT !.txns[i].date = rec.date,
                                          !.txns[i].description = rec.name,
                                          !.txns[i].payee = PayeeOf(rec),
                                          !.txns[i].amount = -rec.amount,
                                          !.txns[i].pending = rec.pending,
                                          !.txns[i].plaid_primary_category = rec.primary,
                                          !.txns[i].plaid_detailed_category = rec.detailed,
                                          !.txns[i].merchant_name = rec.merchant_name]))

\* body of "for plaid_txn in response.modified"
ProcessModified(st, rec, now, plan) ==
  LET i == FindByPlaidId(st.db.txns, rec.transaction_id)
  IN IF st.raised \/ i = 0 THEN st
     ELSE LET existing == st.db.txns[i]
              was_pending == existing.pending
              is_now_pending == rec.pending
              updated == [existing EXCEPT
                            !.date = rec.date,
                            !.description = rec.name,
                            !.payee = PayeeOf(rec),
                            !.amount = -rec.amount,
                            !.pending = rec.pending,
                            !.plaid_primary_category = rec.primary,
                            !.plaid_detailed_category = rec.detailed,
                            !.merchant_name = rec.merchant_name]
              Counted(s) == IF s.raised THEN s ELSE [s EXCEPT !.modified = @ + 1]
              Update(db1) ==
                IF (was_pending /\ ~is_now_pending) \/ updated.category_id = NoCategory
                  THEN AfterCascade(st, apply_auto_categorization(db1, i, now, plan))
                  ELSE [st EXCEPT !.db = db1]
          IN Counted(Update([st.db EXCEPT !.txns[i] = updated]))

\* the removed branch counting an id it does not find
ProcessRemoved_counting(st, id) ==
  LET i == FindByPlaidId(st.db.txns, id)
  IN IF i = 0 THEN [st EXCEPT !.removed = @ + 1]
     ELSE [st EXCEPT !.deleted = @ \cup {i}, !.removed = @ + 1]

\* body of "for removed_id in response.removed": the session does not
\* autoflush, so the DELETE is issued at the page's commit and the row is
\* still found by a later query of the same loop; st.deleted are the rows
\* marked by db.delete
ProcessRemoved(st, id) ==
  LET i == FindByPlaidId(st.db.txns, id)
  IN IF st.raised \/ i = 0 THEN st
     ELSE [st EXCEPT !.deleted = @ \cup {i}, !.removed = @ + 1]

RECURSIVE FoldAdded(_, _, _, _, _)
FoldAdded(st, account_map, recs, now, plan) ==
  IF recs = <<>> THEN st
  ELSE FoldAdded(ProcessAdded(st, account_map, Head(recs), now, plan),
                 account_map, Tail(recs), now, plan)

RECURSIVE FoldModified(_, _, _, _)
FoldModified(st, recs, now, plan) ==
  IF recs = <<>> THEN st
  ELSE FoldModified(ProcessModified(st, Head(recs), now, plan), Tail(recs), now, plan)

RECURSIVE FoldRemoved(_, _)
FoldRemoved(st, ids) ==
  IF ids = <<>> THEN st ELSE FoldRemoved(ProcessRemoved(st, Head(ids)), Tail(ids))

\* rows left by the DELETEs of the commit
DeleteRows(txns, deleted) ==
  SelectSeq([k \in 1..Len(txns) |-> [row |-> txns[k], del |-> k \in deleted]],
            LAMBDA e : ~e.del)

Rows(marked) == [k \in 1..Len(marked) |-> marked[k].row]

\* an iteration that takes the removed list before the added and modified ones
ApplyPage_removed_first(st, account_map, page, now, plan) ==
  LET Begin(s) == [db |-> s.db, added |-> s.added, modified |-> s.modified,
                   removed |-> s.removed, deleted |-> {}, raised |-> FALSE, saved |-> s.db]
      Removed(s0) ==
        LET s1 == FoldRemoved(s0, page.removed)
        IN [s1 EXCEPT !.db.txns = Rows(DeleteRows(@, s1.deleted)), !.deleted = {}]
      Added(s1) == FoldAdded(s1, account_map, page.added, now, plan)
      Modified(s2) == FoldModified(s2, page.modified, now, plan)
  IN Modified(Added(Removed(Begin(st))))

\* One iteration of the while loop of sync_transactions after the response
\* arrived: added, modified, removed, then db.commit().  An exception of the
\* Cascade leaves the loop and the call; the session is closed by get_db and
\* what it had not committed is rolled back (db.calls is kept as counted).
ApplyPage(st, account_map, page, now, plan) ==
  LET Begin(s) == [db |-> s.db, added |-> s.added, modified |-> s.modified,
                   removed |-> s.removed, deleted |-> {}, raised |-> FALSE, saved |-> s.db]
      Added(s0) == FoldAdded(s0, account_map, page.added, now, plan)
      Modified(s1) == FoldModified(s1, page.modified, now, plan)
      Removed(s2) == FoldRemoved(s2, page.removed)
      Commit(s3) ==
        IF s3.raised
          THEN [s3 EXCEPT !.db = [s3.saved EXCEPT !.calls = s3.db.calls], !.deleted = {}]
          ELSE [s3 EXCEPT !.db.txns = Rows(DeleteRows(@, s3.deleted)), !.deleted = {}]
  IN Commit(Removed(Modified(Added(Begin(st)))))


\* ------------------------------------------------------------------------
\* The external feed and the inputs of the model
\* ------------------------------------------------------------------------
Str_b == StrV(<<"b">>)
Str_ab == StrV(<<"a", "b">>)
Str_x == StrV(<<"x">>)
Food == StrV(<<"F">>)
Shop == StrV(<<"S">>)
Coffee == StrV(<<"C">>)

\* accounts_get: the accounts the feed lists for the item
FeedAccounts == << [account_id |-> "a1", name |-> StrV(<<"B", "k">>)] >>

\* the item's account as an earlier link left it: renamed since, inactive
StaleAccount ==
  [id |-> 1, plaid_account_id |-> "a1", name |-> StrV(<<"O", "d">>), is_active |-> FALSE]

FeedTxn(id, acct, amt, date, name, merchant, pending, primary, detailed) ==
  [transaction_id |-> id, account_id |-> acct, amount |-> amt, date |-> date,
   name |-> name, merchant_name |-> merchant, pending |-> pending,
   primary |-> primary, detailed |-> detailed]

\* t1 pending, nothing to categorize it by
RecPending == FeedTxn("t1", "a1", 5, 1, Str_b, Null, TRUE, Null, Null)
\* t1 settled, with taxonomy codes
RecSettled == FeedTxn("t1", "a1", 7, 2, Str_ab, Null, FALSE, Food, Coffee)
\* t1 posted
RecPosted == FeedTxn("t1", "a1", 5, 1, Str_ab, Null, FALSE, Food, Coffee)
\* t1 posted, re-coded
RecRecoded == FeedTxn("t1", "a1", 5, 1, Str_ab, Null, FALSE, Shop, Null)
\* t1 back to pending
RecHeld == FeedTxn("t1", "a1", 7, 2, Str_ab, Null, TRUE, Shop, Null)
\* t3 of an account the item does not list
RecOrphan == FeedTxn("t3", "ax", 9, 1, Str_ab, Null, FALSE, Null, Null)
\* t2 with a merchant name
RecShop == FeedTxn("t2", "a1", 9, 1, Str_b, Str_ab, FALSE, Null, Null)

Page(added, modified, removed) == [added |-> added, modified |-> modified, removed |-> removed]

EmptyPage == Page(<<>>, <<>>, <<>>)

\* a page the feed has published and no call has fetched yet
Unfetched == [added |-> <<>>, modified |-> <<>>, removed |-> <<>>, fetched |-> FALSE]

PageSet ==
  { Page(<<RecPending, RecPending>>, <<>>, <<>>),
    Page(<<>>, <<RecSettled>>, <<>>),
    Page(<<RecPosted>>, <<RecRecoded, RecHeld>>, <<>>),
    Page(<<RecOrphan, RecShop>>, <<>>, <<"t1", "t1">>) }

\* client.transactions_sync(cursor): the feed is a log of pages, a cursor is
\* a position in it (0 is the empty string), a response carries one page
transactions_sync(feed, cursor) ==
  IF cursor < Len(feed)
    THEN [page |-> feed[cursor + 1], next_cursor |-> cursor + 1, has_more |-> cursor + 1 < Len(feed)]
    ELSE [page |-> EmptyPage, next_cursor |-> cursor, has_more |-> FALSE]

\* the feed as the call finds it: the content of a page shows when the page is
\* fetched for the first time, and stays as it was from then on
FirstFetch(feed, cursor) ==
  IF cursor < Len(feed) /\ feed[cursor + 1] = Unfetched
    THEN {[feed EXCEPT ![cursor + 1] = p] : p \in PageSet}
    ELSE {feed}

\* status codes of plaid.ApiException
ApiStatus == {400, 500}

Rule(priority, active, conditions, actions) ==
  [priority |-> priority, active |-> active, conditions |-> conditions,
   actions |-> actions, match_count |-> 0, last_matched_at |-> 0]

Mapping(primary, detailed, category_id, confidence, auto_apply) ==
  [plaid_primary_category |-> primary, plaid_detailed_category |-> detailed,
   category_id |-> category_id, confidence |-> confidence, auto_apply |-> auto_apply,
   match_count |-> 0, last_matched_at |-> 0]

SetCategory(v) == Actions({"set_category"}, v, Null, FALSE, {}, Null)

\* description contains "ab" -> category 1, payee "x", tag "g", reviewed
RuleRewrite ==
  Rule(1, TRUE, Leaf("description", "contains", Str_ab),
       Actions({"set_category", "set_payee", "add_tags", "set_reviewed"},
               IntV(1), Str_x, TRUE, {"g"}, BoolV(TRUE)))
\* payee equals "X" -> the category named "H"
RulePayee == Rule(2, TRUE, Leaf("payee", "equals", StrV(<<"X">>)), SetCategory(StrV(<<"H">>)))
\* amount < 0 and not pending -> category 1
RuleSettledDebit ==
  Rule(3, TRUE, AllOf(<<Leaf("amount", "less_than", IntV(0)),
                        Leaf("pending", "equals", StrV(<<"f", "a", "l", "s", "e">>))>>),
       SetCategory(IntV(1)))
\* merchant_name matches "a." or account.name starts with "z" -> payee "x" only
RuleMerchant ==
  Rule(1, TRUE, AnyOf(<<Leaf("merchant_name", "regex", StrV(<<"a", ".">>)),
                        Leaf("account.name", "starts_with", StrV(<<"z">>))>>),
       Actions({"set_payee"}, Null, Str_x, FALSE, {}, Null))
\* inactive catch-all
RuleInactive == Rule(9, FALSE, AllOf(<<>>), SetCategory(IntV(2)))
\* description ends with "b" -> a category name that does not exist
RuleUnknown == Rule(1, TRUE, Leaf("description", "ends_with", Str_b), SetCategory(StrV(<<"Z">>)))
\* conditions that are not JSON -> category 1
RuleBroken == Rule(5, TRUE, Malformed, SetCategory(IntV(1)))

MapFood == Mapping(<<"F">>, Null, 2, 80, TRUE)
MapCoffee == Mapping(<<"F">>, Coffee, 1, 50, TRUE)
MapShop == Mapping(<<"S">>, Null, 2, 90, TRUE)
MapManual == Mapping(<<"S">>, Null, 1, 100, FALSE)

\* rules and mappings a user has stored when the model starts
Configs ==
  { [rules |-> <<RuleInactive, RuleSettledDebit>>, maps |-> <<MapFood, MapCoffee, MapShop>>],
    [rules |-> <<RuleRewrite, RulePayee>>, maps |-> <<MapManual>>],
    [rules |-> <<RuleRewrite, RuleBroken>>, maps |-> <<>>] }

\* the stored configurations whose rules all load
ParConfigs ==
  {c \in Configs : \A r \in 1..Len(c.rules) : ~conditions_raise(c.rules[r])}


\* ------------------------------------------------------------------------
\* State
\* ------------------------------------------------------------------------
VARIABLES
  txns,         \* transactions table, rows in insertion order
  rules,        \* rules table
  maps,         \* plaid_category_mappings table
  accounts,     \* accounts table
  item,         \* the plaid_items row
  feed,         \* the pages the feed has published for the item, Unfetched until fetched
  pc,           \* "idle", or "loop" while a sync_transactions call is between pages
  cursor,       \* sync_transactions: local cursor
  counts,       \* sync_transactions: added_count, modified_count, removed_count
  account_map,  \* sync_transactions: plaid account id -> account id
  ret,          \* outcome of the last sync_transactions call
  res,          \* result of the last direct Cascade / RuleEngine call
  now,          \* datetime.now(UTC), a logical clock
  calls,        \* number of apply_auto_categorization invocations so far
  fetched,      \* pages processed by the current (or last) sync call
  applied,      \* for each feed position, how often its page was committed
  manual,       \* external id -> category the user last set by PATCH, or NoCategory
  base,         \* the store when the current run of sync attempts began
  hist,         \* what the last step was
  edits,        \* number of PATCH requests so far
  ncalls,       \* number of direct Cascade / RuleEngine calls so far
  workers       \* the sync calls of different items running side by side, each with its session

vars == <<txns, rules, maps, accounts, item, feed, pc, cursor, counts, account_map,
          ret, res, now, calls, fetched, applied, manual, base, hist, edits, ncalls, workers>>

Db == [txns |-> txns, rules |-> rules, maps |-> maps, accounts |-> accounts, calls |-> calls]

NoRet == [kind |-> "none", added |-> 0, modified |-> 0, removed |-> 0, cursor |-> 0, status |-> 0]

NoCounts == [added |-> 0, modified |-> 0, removed |-> 0]

NoBase == [open |-> FALSE, failed |-> FALSE, edited |-> FALSE, cursor |-> 0,
           db |-> [txns |-> <<>>, rules |-> <<>>, maps |-> <<>>, accounts |-> <<>>, calls |-> 0],
           account_map |-> [id \in {} |-> 0]]

NoHist == [redelivered |-> FALSE, settled |-> FALSE]

\* external transaction ids of the feed
ExtIds == {"t1", "t2", "t3"}

\* result of a direct call: the dict apply_auto_categorization returns, and
\* what apply_rules returned
NoCall == [op |-> "none", result |-> NoResult, matched |-> FALSE, rule |-> 0,
           actions |-> NoActions, apply_changes |-> FALSE, raised |-> FALSE]

\* the database's possible orders of rows that an ORDER BY leaves equal
Identity(n) == [k \in 1..n |-> k]

RuleTies(rs) ==
  \E a, b \in 1..Len(rs) : a # b /\ rs[a].active /\ rs[b].active /\ rs[a].priority = rs[b].priority

MapTies(ms) ==
  \E a, b \in 1..Len(ms) :
    /\ a # b /\ ms[a].auto_apply /\ ms[b].auto_apply
    /\ ms[a].plaid_primary_category = ms[b].plaid_primary_category
    /\ IsNull(ms[a].plaid_detailed_category) = IsNull(ms[b].plaid_detailed_category)
    /\ ms[a].confidence = ms[b].confidence

RulePlans(rs) == IF RuleTies(rs) THEN Permutations(1..Len(rs)) ELSE {Identity(Len(rs))}

MapPlans(ms) == IF MapTies(ms) THEN Permutations(1..Len(ms)) ELSE {Identity(Len(ms))}

Plans(db) == [rules : RulePlans(db.rules), maps : MapPlans(db.maps)]

InitCommon ==
  /\ item = [cursor |-> 0, needs_update |-> FALSE, error_code |-> <<>>,
             last_synced_at |-> 0, is_active |-> TRUE]
  /\ feed = <<>>
  /\ pc = "idle"
  /\ cursor = 0
  /\ counts = NoCounts
  /\ account_map = [id \in {} |-> 0]
  /\ ret = NoRet
  /\ res = NoCall
  /\ now = 0
  /\ calls = 0
  /\ fetched = 0
  /\ applied = <<>>
  /\ manual = [id \in ExtIds |-> NoCategory]
  /\ hist = NoHist
  /\ edits = 0
  /\ ncalls = 0

Init ==
  /\ InitCommon
  /\ base = NoBase
  /\ workers = <<>>
  /\ accounts = <<>>
  /\ txns = <<>>
  /\ \E c \in Configs : rules = c.rules /\ maps = c.maps

\* ------------------------------------------------------------------------
\* PlaidService.get_accounts: find or create by plaid_account_id
\* ------------------------------------------------------------------------
FindAccount(accts, plaid_account_id) ==
  LET hits == {a \in 1..Len(accts) : accts[a].plaid_account_id = plaid_account_id}
  IN IF hits = {} THEN 0 ELSE CHOOSE a \in hits : \A b \in hits : a <= b

\* a sync that goes to the pages without refreshing the accounts
get_accounts_skipped(accts, listed) == accts

\* a refresh that inserts every account the feed lists
RECURSIVE get_accounts_appending(_, _)
get_accounts_appending(accts, listed) ==
  IF listed = <<>> THEN accts
  ELSE get_accounts_appending(Append(accts, [id |-> Len(accts) + 1,
                                             plaid_account_id |-> Head(listed).account_id,
                                             name |-> Head(listed).name, is_active |-> TRUE]),
                              Tail(listed))

RECURSIVE get_accounts(_, _)
get_accounts(accts, listed) ==
  IF listed = <<>> THEN accts
  ELSE LET pa == Head(listed)
           a == FindAccount(accts, pa.account_id)
           accts1 == IF a = 0
                       THEN Append(accts, [id |-> Len(accts) + 1,
                                           plaid_account_id |-> pa.account_id,
                                           name |-> pa.name, is_active |-> TRUE])
                       ELSE [accts EXCEPT ![a].name = pa.name, ![a].is_active = TRUE]
       IN get_accounts(accts1, Tail(listed))

\* account_map = {acc.plaid_account_id: acc for acc in accounts}
AccountMap(accts, listed) ==
  [id \in {listed[k].account_id : k \in 1..Len(listed)} |-> FindAccount(accts, id)]

\* an except branch that also drops the cursor
OnApiException_resetting(it, status) ==
  [it EXCEPT !.needs_update = TRUE, !.error_code = IntStr(status), !.cursor = 0]

\* an except branch that re-raises without flagging the item
OnApiException_silent(it, status) == it

\* except plaid.ApiException: needs_update, error_code, commit, raise
OnApiException(it, status) ==
  [it EXCEPT !.needs_update = TRUE, !.error_code = IntStr(status)]

\* the block after the loop leaving the error flags as they were
OnSyncComplete_keeping_flags(it, cur, t) == [it EXCEPT !.cursor = cur, !.last_synced_at = t]

\* the block after the while loop of sync_transactions
OnSyncComplete(it, cur, t) ==
  [it EXCEPT !.cursor = cur, !.last_synced_at = t, !.needs_update = FALSE, !.error_code = <<>>]


\* ------------------------------------------------------------------------
\* PlaidService.sync_transactions
\* ------------------------------------------------------------------------
\* a sync endpoint that does not look at is_active
Rejects_never(it) == FALSE

\* the sync endpoint: "if not plaid_item.is_active: raise HTTPException(400)"
Rejects(it) == ~it.is_active

\* the call up to the first page fetch: get_accounts succeeded
SyncStart ==
  /\ pc = "idle" /\ now < MaxSyncs /\ ~Rejects(item)
  /\ LET accts == get_accounts(accounts, FeedAccounts)
         amap == AccountMap(accts, FeedAccounts)
     IN /\ accounts' = accts
        /\ account_map' = amap
        /\ base' = IF base.open THEN base
                   ELSE [open |-> TRUE, failed |-> FALSE, edited |-> FALSE,
                         cursor |-> item.cursor,
                         db |-> [Db EXCEPT !.accounts = accounts'],
                         account_map |-> account_map']
  /\ cursor' = item.cursor
  /\ counts' = NoCounts
  /\ fetched' = 0
  /\ pc' = "loop"
  /\ now' = now + 1
  /\ hist' = NoHist
  /\ UNCHANGED <<workers, txns, rules, maps, item, feed, ret, res, calls, applied, manual, edits, ncalls>>

\* accounts_get raised plaid.ApiException
SyncAccountsFail ==
  /\ pc = "idle" /\ now < MaxSyncs /\ ~Rejects(item)
  /\ \E status \in ApiStatus :
       /\ item' = OnApiException(item, status)
       /\ ret' = [NoRet EXCEPT !.kind = "error", !.cursor = item.cursor, !.status = status]
  /\ fetched' = 0
  /\ hist' = NoHist
  /\ UNCHANGED <<workers, txns, rules, maps, accounts, feed, pc, cursor, counts, account_map,
                 res, now, calls, applied, manual, base, edits, ncalls>>

\* every added record of the page meets a transaction that already exists
Redelivery(page) ==
  /\ page.added # <<>> /\ page.modified = <<>> /\ page.removed = <<>>
  /\ \A k \in 1..Len(page.added) :
       /\ AccountMapGet(account_map, page.added[k].account_id) # 0
       /\ FindByPlaidId(txns, page.added[k].transaction_id) # 0

\* the page is one modified record that settles a pending, uncategorized row
Settlement(page) ==
  /\ page.added = <<>> /\ page.removed = <<>> /\ Len(page.modified) = 1
  /\ LET i == FindByPlaidId(txns, page.modified[1].transaction_id)
     IN /\ i # 0
        /\ txns[i].pending /\ ~page.modified[1].pending
        /\ txns[i].category_id = NoCategory
        /\ ~txns[i].auto_categorized

\* one iteration of the while loop: fetch a page, reconcile, commit; when the
\* feed reports has_more = false, the block after the loop as well.  An
\* exception that is not plaid.ApiException passes the except clause of
\* sync_transactions; the endpoint turns a ValueError into HTTP 503.
SyncPage ==
  /\ pc = "loop"
  /\ \E plan \in Plans(Db), log \in FirstFetch(feed, cursor) :
       LET Reconciled(page) ==
             ApplyPage([db |-> Db, added |-> counts.added, modified |-> counts.modified,
                        removed |-> counts.removed, deleted |-> {}],
                       account_map, page, now, plan)
           Crash(st) ==
             /\ txns' = st.db.txns
             /\ rules' = st.db.rules
             /\ maps' = st.db.maps
             /\ calls' = st.db.calls
             /\ pc' = "idle"
             /\ ret' = [NoRet EXCEPT !.kind = "crash", !.cursor = item.cursor, !.status = 503]
             /\ base' = [base EXCEPT !.failed = TRUE]
             /\ hist' = NoHist
             /\ UNCHANGED <<item, cursor, counts, applied, manual>>
           Iteration(resp, st) ==
             /\ txns' = st.db.txns
             /\ rules' = st.db.rules
             /\ maps' = st.db.maps
             /\ calls' = st.db.calls
             /\ counts' = [added |-> st.added, modified |-> st.modified, removed |-> st.removed]
             /\ cursor' = resp.next_cursor
             /\ applied' = IF cursor < Len(feed) THEN [applied EXCEPT ![cursor + 1] = @ + 1]
                           ELSE applied
             /\ manual' = [id \in ExtIds |->
                             IF \E k \in 1..Len(resp.page.removed) : resp.page.removed[k] = id
                               THEN NoCategory ELSE manual[id]]
             /\ hist' = [redelivered |-> Redelivery(resp.page), settled |-> Settlement(resp.page)]
             /\ IF resp.has_more
                  THEN /\ pc' = "loop"
                       /\ UNCHANGED <<item, ret, base>>
                  ELSE /\ pc' = "idle"
                       /\ item' = OnSyncComplete(item, resp.next_cursor, now)
                       /\ ret' = [kind |-> "ok", added |-> st.added, modified |-> st.modified,
                                  removed |-> st.removed, cursor |-> resp.next_cursor,
                                  status |-> 0]
                       /\ base' = [base EXCEPT !.open = FALSE]
           Outcome(resp, st) == IF st.raised THEN Crash(st) ELSE Iteration(resp, st)
           Response(resp) == Outcome(resp, Reconciled(resp.page))
       IN /\ feed' = log
          /\ Response(transactions_sync(log, cursor))
  /\ fetched' = fetched + 1
  /\ UNCHANGED <<workers, accounts, account_map, res, now, edits, ncalls>>

\* transactions_sync raised plaid.ApiException
SyncPageFail ==
  /\ pc = "loop"
  /\ \E status \in ApiStatus :
       /\ item' = OnApiException(item, status)
       /\ ret' = [NoRet EXCEPT !.kind = "error", !.added = counts.added,
                               !.modified = counts.modified, !.removed = counts.removed,
                               !.cursor = cursor, !.status = status]
  /\ pc' = "idle"
  /\ base' = [base EXCEPT !.failed = TRUE]
  /\ hist' = NoHist
  /\ UNCHANGED <<workers, txns, rules, maps, accounts, feed, cursor, counts, account_map, res, now,
                 calls, fetched, applied, manual, edits, ncalls>>

\* ------------------------------------------------------------------------
\* PATCH /transactions/{id} with a body of category_id only
\* ------------------------------------------------------------------------
update_transaction(t, category_id) == [t EXCEPT !.category_id = category_id]

UpdateTransaction ==
  /\ edits < MaxEdits
  /\ \E i \in 1..Len(txns), c \in {NoCategory} \cup {Categories[k].id : k \in 1..Len(Categories)} :
       /\ txns' = [txns EXCEPT ![i] = update_transaction(txns[i], c)]
       /\ manual' = [manual EXCEPT ![txns[i].plaid_transaction_id] = c]
  /\ base' = [base EXCEPT !.edited = TRUE]
  /\ edits' = edits + 1
  /\ hist' = NoHist
  /\ UNCHANGED <<workers, rules, maps, accounts, item, feed, pc, cursor, counts, account_map, ret, res,
                 now, calls, fetched, applied, ncalls>>

\* POST /items/{item_id}/sync answered 400 before a service exists
SyncRejected ==
  /\ pc = "idle" /\ Rejects(item)
  /\ ret' = [NoRet EXCEPT !.kind = "rejected", !.cursor = item.cursor, !.status = 400]
  /\ hist' = NoHist
  /\ UNCHANGED <<workers, txns, rules, maps, accounts, item, feed, pc, cursor, counts, account_map,
                 res, now, calls, fetched, applied, manual, base, edits, ncalls>>

\* DELETE /items/{item_id}
delete_plaid_item(it) == [it EXCEPT !.is_active = FALSE]

DeletePlaidItem ==
  /\ item.is_active
  /\ item' = delete_plaid_item(item)
  /\ hist' = NoHist
  /\ UNCHANGED <<workers, txns, rules, maps, accounts, feed, pc, cursor, counts, account_map, ret,
                 res, now, calls, fetched, applied, manual, base, edits, ncalls>>

\* the feed publishes one more page for the item
FeedPublish ==
  /\ pc = "idle"
  /\ Len(feed) < MaxPages
  /\ feed' = Append(feed, Unfetched)
  /\ applied' = Append(applied, 0)
  /\ hist' = NoHist
  /\ UNCHANGED <<workers, txns, rules, maps, accounts, item, pc, cursor, counts, account_map, ret, res,
                 now, calls, fetched, manual, base, edits, ncalls>>

Next ==
  \/ SyncStart
  \/ SyncAccountsFail
  \/ SyncPage
  \/ SyncPageFail
  \/ UpdateTransaction
  \/ FeedPublish

Spec == Init /\ [][Next]_vars

\* ------------------------------------------------------------------------
\* An item that is synced, refreshed and disconnected
\* ------------------------------------------------------------------------
InitItem ==
  /\ InitCommon
  /\ base = NoBase
  /\ workers = <<>>
  /\ accounts \in {<<>>, <<StaleAccount>>}
  /\ txns = <<>>
  /\ rules = <<RuleInactive, RuleSettledDebit>>
  /\ maps = <<MapFood, MapCoffee, MapShop>>

NextItem ==
  \/ SyncStart
  \/ SyncAccountsFail
  \/ SyncPage
  \/ SyncPageFail
  \/ FeedPublish
  \/ SyncRejected
  \/ DeletePlaidItem

SpecItem == InitItem /\ [][NextItem]_vars


\* ------------------------------------------------------------------------
\* The Cascade and the RuleEngine called directly on one stored transaction
\* ------------------------------------------------------------------------
\* the rules a user can have created, oldest first
RuleBase == <<RuleUnknown, RuleSettledDebit, RuleRewrite, RulePayee, RuleInactive, RuleMerchant>>

\* the rules table: up to MaxRules of these rules, in creation order (the order
\* in which rows of equal priority come back is the plan's, not the table's)
RulePool ==
  UNION {{[i \in 1..n |-> RuleBase[ix[i]]] :
            ix \in {f \in [1..n -> DOMAIN RuleBase] : \A a, b \in 1..n : a < b => f[a] < f[b]}}
         : n \in 0..MaxRules}

MapPool == { <<>>, <<MapFood, MapCoffee, MapShop>>, <<MapManual, MapShop, MapShop>> }

\* how a stored transaction can be categorized
Categorized(t, category_id, auto, method) ==
  [t EXCEPT !.category_id = category_id, !.auto_categorized = auto,
            !.categorization_method = method]

TxnPool ==
  LET fresh == {NewTransaction(r, 1) : r \in {RecPending, RecSettled, RecShop}}
  IN fresh
     \cup {Categorized(t, 2, FALSE, "none") : t \in fresh}
     \cup {Categorized(t, 1, TRUE, "plaid_mapping") : t \in fresh}
     \cup {Categorized(t, 1, TRUE, "rule") : t \in fresh}

InitCascade ==
  /\ InitCommon
  /\ base = NoBase
  /\ workers = <<>>
  /\ accounts = get_accounts(<<>>, FeedAccounts)
  /\ \E t \in TxnPool : txns = <<t>>
  /\ rules \in RulePool
  /\ maps \in MapPool

\* apply_auto_categorization(transaction, db) on the stored transaction
CascadeCall ==
  /\ ncalls < MaxCalls
  /\ \E plan \in Plans(Db) :
       LET Returned(c) ==
             /\ txns' = c.db.txns
             /\ rules' = c.db.rules
             /\ maps' = c.db.maps
             /\ calls' = c.db.calls
             /\ res' = [NoCall EXCEPT !.op = "cascade", !.result = c.result,
                                      !.raised = c.raised]
       IN Returned(apply_auto_categorization(Db, 1, now + 1, plan))
  /\ now' = now + 1
  /\ ncalls' = ncalls + 1
  /\ UNCHANGED <<workers, accounts, item, feed, pc, cursor, counts, account_map, ret, fetched, applied,
                 manual, base, hist, edits>>

\* RuleEngine(db).apply_rules(transaction, apply_changes) on the stored transaction
ApplyRulesCall ==
  /\ ncalls < MaxCalls
  /\ \E tie \in RulePlans(rules), apply_changes \in BOOLEAN :
       LET Returned(r) ==
             /\ txns' = r.db.txns
             /\ rules' = r.db.rules
             /\ res' = [NoCall EXCEPT !.op = "rules", !.matched = r.matched, !.rule = r.rule,
                                      !.actions = r.actions, !.apply_changes = apply_changes,
                                      !.raised = r.raised]
       IN Returned(apply_rules(Db, 1, apply_changes, now + 1, tie))
  /\ now' = now + 1
  /\ ncalls' = ncalls + 1
  /\ UNCHANGED <<workers, maps, accounts, item, feed, pc, cursor, counts, account_map, ret, calls,
                 fetched, applied, manual, base, hist, edits>>

NextCascade == CascadeCall \/ ApplyRulesCall

SpecCascade == InitCascade /\ [][NextCascade]_vars


\* ------------------------------------------------------------------------
\* RuleEngine.test_rule on condition trees
\* ------------------------------------------------------------------------
LeafPool ==
  { Leaf("description", "contains", Str_ab),
    Leaf("pending", "equals", StrV(<<"f", "a", "l", "s", "e">>)) }

\* the composites with up to MaxChildren children taken from cs
Composites(cs) ==
  LET lists == UNION {[1..n -> cs] : n \in 0..MaxChildren}
  IN {AllOf(l) : l \in lists} \cup {AnyOf(l) : l \in lists}

\* leaves and composites of leaves
FlatConditions == LeafPool \cup Composites(LeafPool)

\* what a nested composite has as children: leaves, and the composites of
\* leaves that are empty or have MaxChildren children
NestedChildren ==
  {c \in FlatConditions : c.type \in {"all", "any"} => Len(c.children) \in {0, MaxChildren}}

\* leaves, composites of leaves, and composites of those
ConditionPool(nested) == FlatConditions \cup Composites(nested)

InitCondition ==
  /\ InitCommon
  /\ base = NoBase
  /\ workers = <<>>
  /\ accounts = get_accounts(<<>>, FeedAccounts)
  /\ \E r \in {RecPending, RecSettled, RecShop} : txns = <<NewTransaction(r, 1)>>
  /\ \E c \in ConditionPool(NestedChildren) : rules = <<Rule(1, TRUE, c, NoActions)>>
  /\ maps = <<>>

\* RuleEngine(db).test_rule(rule, transaction) on the stored rule and transaction;
\* the call changes nothing, so one call per behaviour is all there is to see
TestRuleCall ==
  /\ res.op = "none"
  /\ res' = [NoCall EXCEPT !.op = "test",
                           !.matched = matches_conditions(accounts, txns[1], rules[1])]
  /\ ncalls' = ncalls + 1
  /\ UNCHANGED <<workers, txns, rules, maps, accounts, item, feed, pc, cursor, counts, account_map, ret,
                 now, calls, fetched, applied, manual, base, hist, edits>>

NextCondition == TestRuleCall

SpecCondition == InitCondition /\ [][NextCondition]_vars


\* ------------------------------------------------------------------------
\* RuleEngine.test_rule on single leaves
\* ------------------------------------------------------------------------
\* attributes with and without a value, a dotted path, a name Transaction does
\* not have, and a leaf without a "field" key
LeafFields == {"description", "amount", "merchant_name", "account.name", "nickname", ""}

\* the operators of the engine, a name it does not know, and a leaf without an
\* "operator" key
LeafOperators == StringOperators \cup NumericOperators \cup {"between", ""}

\* a pattern Python's re refuses because of its repetition count
Str_repeat ==
  StrV(<<"a", "{", "9", "9", "9", "9", "9", "9", "9", "9", "9", "9", "9", "}">>)

LeafValues == {Null, Str_ab, IntV(5), StrV(<<"(">>), Str_repeat}

InitLeaf ==
  /\ InitCommon
  /\ base = NoBase
  /\ workers = <<>>
  /\ accounts \in {<<>>, get_accounts(<<>>, FeedAccounts)}
  /\ \E r \in {RecPending, RecSettled, RecShop} : txns = <<NewTransaction(r, 1)>>
  /\ \E f \in LeafFields, op \in LeafOperators, v \in LeafValues :
       rules = <<Rule(1, TRUE, Leaf(f, op, v), NoActions)>>
  /\ maps = <<>>

\* RuleEngine(db).test_rule(rule, transaction) on the stored rule and
\* transaction: the boolean returned, or the exception that passes through
TestLeafCall ==
  /\ res.op = "none"
  /\ LET Outcome(raises) ==
           res' = [NoCall EXCEPT !.op = "leaf",
                                 !.matched = ~raises /\ matches_conditions(accounts, txns[1], rules[1]),
                                 !.raised = raises]
     IN Outcome(evaluate_raises(accounts, txns[1], rules[1].conditions))
  /\ ncalls' = ncalls + 1
  /\ UNCHANGED <<workers, txns, rules, maps, accounts, item, feed, pc, cursor, counts, account_map, ret,
                 now, calls, fetched, applied, manual, base, hist, edits>>

NextLeaf == TestLeafCall

SpecLeaf == InitLeaf /\ [][NextLeaf]_vars


\* ------------------------------------------------------------------------
\* One iteration of the sync loop over a page of one modified record, on a
\* store that holds one transaction
\* ------------------------------------------------------------------------
\* the records a feed sends as modified
ModifiedPool == {RecSettled, RecPosted, RecRecoded, RecHeld, RecShop}

ModifiedPage ==
  /\ ncalls < MaxCalls
  /\ \E rec \in ModifiedPool, plan \in Plans(Db) :
       LET Committed(st) ==
             /\ txns' = st.db.txns
             /\ rules' = st.db.rules
             /\ maps' = st.db.maps
             /\ calls' = st.db.calls
             /\ counts' = [added |-> st.added, modified |-> st.modified, removed |-> st.removed]
             /\ res' = [op |-> "modified", rec |-> rec]
       IN Committed(ApplyPage([db |-> Db, added |-> counts.added, modified |-> counts.modified,
                               removed |-> counts.removed, deleted |-> {}],
                              AccountMap(accounts, FeedAccounts), Page(<<>>, <<rec>>, <<>>),
                              now + 1, plan))
  /\ now' = now + 1
  /\ ncalls' = ncalls + 1
  /\ UNCHANGED <<workers, accounts, item, feed, pc, cursor, account_map, ret, fetched, applied,
                 manual, base, hist, edits>>

NextModified == ModifiedPage

SpecModified == InitCascade /\ [][NextModified]_vars


\* ------------------------------------------------------------------------
\* Iterations of the sync loop over pages that name an external id in more
\* than one of their lists
\* ------------------------------------------------------------------------
OrderPages ==
  { Page(<<RecShop>>, <<>>, <<"t2">>),
    Page(<<RecPosted>>, <<RecRecoded, RecHeld>>, <<>>),
    Page(<<RecPending>>, <<RecSettled>>, <<"t1">>),
    Page(<<RecOrphan>>, <<RecSettled, RecShop>>, <<"t3">>),
    Page(<<RecPending>>, <<>>, <<>>) }

InitPage ==
  /\ InitCommon
  /\ base = NoBase
  /\ workers = <<>>
  /\ accounts = get_accounts(<<>>, FeedAccounts)
  /\ txns \in {<<>>} \cup {<<t>> : t \in TxnPool}
  /\ \E c \in ParConfigs : rules = c.rules /\ maps = c.maps

OnePage ==
  /\ ncalls < MaxCalls
  /\ \E page \in OrderPages, plan \in Plans(Db) :
       LET Committed(st) ==
             /\ txns' = st.db.txns
             /\ rules' = st.db.rules
             /\ maps' = st.db.maps
             /\ calls' = st.db.calls
             /\ counts' = [added |-> st.added, modified |-> st.modified, removed |-> st.removed]
             /\ res' = [op |-> "page", page |-> page]
       IN Committed(ApplyPage([db |-> Db, added |-> counts.added, modified |-> counts.modified,
                               removed |-> counts.removed, deleted |-> {}],
                              AccountMap(accounts, FeedAccounts), page, now + 1, plan))
  /\ now' = now + 1
  /\ ncalls' = ncalls + 1
  /\ UNCHANGED <<workers, accounts, item, feed, pc, cursor, account_map, ret, fetched, applied,
                 manual, base, hist, edits>>

NextPage == OnePage

SpecPage == InitPage /\ [][NextPage]_vars


\* ------------------------------------------------------------------------
\* Iterations of the sync loop over pages of several records, with a stored
\* rule whose conditions do not load
\* ------------------------------------------------------------------------
\* conditions that are not JSON, in the rule evaluated last
RuleLate == Rule(0, TRUE, Malformed, SetCategory(IntV(1)))

AtomicConfigs ==
  { [rules |-> <<RuleRewrite, RuleLate>>, maps |-> <<>>],
    [rules |-> <<RuleLate>>, maps |-> <<MapFood, MapCoffee, MapShop>>],
    [rules |-> <<RuleRewrite, RulePayee>>, maps |-> <<MapManual>>] }

AtomicPages ==
  { Page(<<RecPosted, RecShop>>, <<>>, <<>>),
    Page(<<RecShop, RecPosted>>, <<>>, <<>>),
    Page(<<RecShop>>, <<RecSettled>>, <<>>),
    Page(<<RecPending>>, <<>>, <<"t2">>) }

InitAtomic ==
  /\ InitCommon
  /\ base = NoBase
  /\ workers = <<>>
  /\ accounts = get_accounts(<<>>, FeedAccounts)
  /\ txns \in {<<>>} \cup {<<t>> : t \in TxnPool}
  /\ \E c \in AtomicConfigs : rules = c.rules /\ maps = c.maps

\* one iteration of the while loop, or the part of it that ran before an
\* exception of the Cascade ended the call
AtomicPage ==
  /\ ncalls < MaxCalls
  /\ \E page \in AtomicPages, plan \in Plans(Db) :
       LET Left(st) ==
             /\ txns' = st.db.txns
             /\ rules' = st.db.rules
             /\ maps' = st.db.maps
             /\ calls' = st.db.calls
             /\ counts' = IF st.raised THEN counts
                          ELSE [added |-> st.added, modified |-> st.modified, removed |-> st.removed]
             /\ res' = [op |-> "atomic", page |-> page, raised |-> st.raised]
       IN Left(ApplyPage([db |-> Db, added |-> counts.added, modified |-> counts.modified,
                          removed |-> counts.removed, deleted |-> {}],
                         AccountMap(accounts, FeedAccounts), page, now + 1, plan))
  /\ now' = now + 1
  /\ ncalls' = ncalls + 1
  /\ UNCHANGED <<workers, accounts, item, feed, pc, cursor, account_map, ret, fetched, applied,
                 manual, base, hist, edits>>

NextAtomic == AtomicPage

SpecAtomic == InitAtomic /\ [][NextAtomic]_vars


\* ------------------------------------------------------------------------
\* Sync iterations, Cascade and rule engine calls, and the deletion of a
\* category
\* ------------------------------------------------------------------------
\* "update({Transaction.category_id: None})" on the transactions of the category
unlink_category(ts, entity_id) ==
  [k \in 1..Len(ts) |->
     IF ts[k].category_id = entity_id THEN [ts[k] EXCEPT !.category_id = NoCategory]
     ELSE ts[k]]

\* hard_delete_with_cascades(db, "Category", entity_id, user_id).  The
\* categories table itself is not part of the state, so the deletion is the
\* last step of a behaviour.
DeleteCategory ==
  /\ res.op # "delete"
  /\ \E c \in 1..Len(Categories) :
       /\ txns' = unlink_category(txns, Categories[c].id)
       /\ res' = [op |-> "delete", category |-> Categories[c].id]
  /\ UNCHANGED <<workers, rules, maps, accounts, item, feed, pc, cursor, counts, account_map, ret,
                 now, calls, fetched, applied, manual, base, hist, edits, ncalls>>

\* the direct calls take the first stored transaction
NextCategory ==
  \/ res.op # "delete" /\ OnePage
  \/ res.op # "delete" /\ txns # <<>> /\ CascadeCall
  \/ res.op # "delete" /\ txns # <<>> /\ ApplyRulesCall
  \/ DeleteCategory

SpecCategory == InitPage /\ [][NextCategory]_vars


\* ------------------------------------------------------------------------
\* Syncs of two items running side by side, each with a session of its own
\* ------------------------------------------------------------------------
\* accounts_get of the second item
OtherAccounts == << [account_id |-> "b1", name |-> StrV(<<"C", "u">>)] >>

\* what accounts_get lists for each item
ItemAccounts == <<FeedAccounts, OtherAccounts>>

\* the second item's external transaction ids
Twin == [t1 |-> "u1", t2 |-> "u2", t3 |-> "u3"]

\* a record of the first item as the second item's feed carries it
OtherRec(rec) == [rec EXCEPT !.transaction_id = Twin[@], !.account_id = "b1"]

\* the pages item w's feed may answer with; a page carries one record, so the
\* processing of a page is one read and increment of the statistics
ItemPages(w) ==
  IF w = 1
    THEN { Page(<<RecPending>>, <<>>, <<>>),
           Page(<<RecPosted>>, <<>>, <<>>),
           Page(<<>>, <<RecSettled>>, <<>>),
           Page(<<>>, <<>>, <<"t1">>) }
    ELSE { Page(<<OtherRec(RecPosted)>>, <<>>, <<>>),
           Page(<<>>, <<>>, <<Twin["t1"]>>) }

NoHits == [rules |-> <<0, 0>>, maps |-> <<0, 0, 0>>]

\* a sync call that has not begun
IdleWorker ==
  [pc |-> "idle", cursor |-> 0, persisted |-> 0, feed |-> <<>>, has_more |-> FALSE,
   account_map |-> [id \in {} |-> 0], seen |-> NoBase.db, sess |-> NoBase.db, hits |-> NoHits]

InitParallel ==
  /\ InitCommon
  /\ accounts = <<>>
  /\ txns = <<>>
  /\ \E c \in ParConfigs : rules = c.rules /\ maps = c.maps
  /\ base = [NoBase EXCEPT !.db.rules = rules, !.db.maps = maps]
  /\ workers = [w \in 1..Len(ItemAccounts) |-> IdleWorker]

\* the UPDATE the flush issues for a row the session holds: the columns the
\* session assigned, with the values the session computed
Overlay(stored, loaded, held) ==
  [f \in DOMAIN stored |-> IF held[f] # loaded[f] THEN held[f] ELSE stored[f]]

\* a commit that writes the session's copy of the table over the stored one
FlushTransactions_image(stored, loaded, held) == held

\* db.commit() of a session on the transactions table: DELETE the rows the
\* session deleted, UPDATE the rows it changed, INSERT the rows it added
FlushTransactions(stored, loaded, held) ==
  LET Old(t) == FindByPlaidId(loaded, t.plaid_transaction_id)
      New(t) == FindByPlaidId(held, t.plaid_transaction_id)
      Written(t) == IF Old(t) = 0 \/ New(t) = 0 THEN t
                    ELSE Overlay(t, loaded[Old(t)], held[New(t)])
      kept == SelectSeq(stored, LAMBDA t : Old(t) = 0 \/ New(t) # 0)
      added == SelectSeq(held, LAMBDA t : Old(t) = 0)
  IN [k \in 1..Len(kept) |-> Written(kept[k])] \o added

\* db.commit() on the rules or the mappings table: rows are only updated
FlushStatistics(stored, loaded, held) ==
  [k \in 1..Len(stored) |-> Overlay(stored[k], loaded[k], held[k])]

\* the hits of one page added to those of the call
MoreHits(hits, loaded, held) ==
  [rules |-> [k \in 1..Len(hits.rules) |->
                hits.rules[k] + IF k <= Len(held.rules)
                                  THEN held.rules[k].match_count - loaded.rules[k].match_count
                                  ELSE 0],
   maps |-> [k \in 1..Len(hits.maps) |->
               hits.maps[k] + IF k <= Len(held.maps)
                                THEN held.maps[k].match_count - loaded.maps[k].match_count
                                ELSE 0]]

ParFrame ==
  UNCHANGED <<item, feed, pc, cursor, counts, account_map, ret, res, now, fetched, applied,
              manual, base, hist, edits, ncalls>>

\* sync_transactions of item w up to its first page fetch: get_accounts
ParStart(w) ==
  /\ workers[w].pc = "idle"
  /\ accounts' = get_accounts(accounts, ItemAccounts[w])
  /\ workers' = [workers EXCEPT ![w].pc = "loop",
                                ![w].account_map = AccountMap(accounts', ItemAccounts[w])]
  /\ UNCHANGED <<txns, rules, maps, calls>>
  /\ ParFrame

\* one iteration of item w's loop up to its db.commit(): the page is fetched,
\* the session loads the rows it needs as they are stored now and works on
\* its copies of them
ParProcess(w) ==
  /\ workers[w].pc = "loop"
  /\ \E page \in ItemPages(w), more \in BOOLEAN :
       LET Worked(me, st) ==
             [me EXCEPT !.pc = "dirty", !.feed = Append(@, page), !.cursor = @ + 1,
                        !.has_more = more, !.seen = Db, !.sess = st.db,
                        !.hits = MoreHits(@, Db, st.db)]
           Session(st) == workers' = [workers EXCEPT ![w] = Worked(@, st)]
       IN /\ more => workers[w].cursor + 1 < MaxPages
          /\ Session(ApplyPage([db |-> Db, added |-> 0, modified |-> 0, removed |-> 0,
                                deleted |-> {}],
                               workers[w].account_map, page, w,
                               [rules |-> Identity(Len(rules)), maps |-> Identity(Len(maps))]))
  /\ UNCHANGED <<txns, rules, maps, accounts, calls>>
  /\ ParFrame

\* the db.commit() that ends the iteration, and after the last page the
\* block after the loop with the commit of the item's cursor
ParCommit(w) ==
  /\ workers[w].pc = "dirty"
  /\ LET Flushed(me) ==
           /\ txns' = FlushTransactions(txns, me.seen.txns, me.sess.txns)
           /\ rules' = FlushStatistics(rules, me.seen.rules, me.sess.rules)
           /\ maps' = FlushStatistics(maps, me.seen.maps, me.sess.maps)
           /\ calls' = calls + (me.sess.calls - me.seen.calls)
           /\ workers' = [workers EXCEPT
                            ![w].pc = IF me.has_more THEN "loop" ELSE "done",
                            ![w].persisted = IF me.has_more THEN @ ELSE me.cursor,
                            ![w].seen = NoBase.db, ![w].sess = NoBase.db]
     IN Flushed(workers[w])
  /\ UNCHANGED accounts
  /\ ParFrame

NextParallel == \E w \in 1..Len(ItemAccounts) : ParStart(w) \/ ParProcess(w) \/ ParCommit(w)

SpecParallel == InitParallel /\ [][NextParallel]_vars


\* ------------------------------------------------------------------------
\* Two sync requests for the same item running side by side, each with a
\* session and a PlaidItem object of its own
\* ------------------------------------------------------------------------
\* the pages the item's feed publishes
OverlapPages ==
  { Page(<<RecPending>>, <<>>, <<>>),
    Page(<<>>, <<RecSettled>>, <<>>),
    Page(<<RecShop>>, <<>>, <<"t1">>) }

Requests == 1..2

InitOverlap ==
  /\ InitCommon
  /\ accounts = <<>>
  /\ txns = <<>>
  /\ \E c \in ParConfigs : rules = c.rules /\ maps = c.maps
  /\ base = NoBase
  /\ workers = [w \in Requests |-> IdleWorker]

OverlapFrame ==
  UNCHANGED <<pc, cursor, counts, account_map, ret, res, now, fetched, applied,
              manual, base, hist, edits, ncalls>>

\* the feed publishes one more page for the item
OverlapPublish ==
  /\ Len(feed) < MaxPages
  /\ \E page \in OverlapPages : feed' = Append(feed, page)
  /\ UNCHANGED <<txns, rules, maps, accounts, calls, item, workers>>
  /\ OverlapFrame

\* request w up to its first page fetch: the endpoint loads the item, the
\* service reads its cursor and refreshes the accounts
OverlapStart(w) ==
  /\ workers[w].pc = "idle"
  /\ ~Rejects(item)
  /\ accounts' = get_accounts(accounts, FeedAccounts)
  /\ workers' = [workers EXCEPT ![w].pc = "loop",
                                ![w].cursor = item.cursor,
                                ![w].account_map = AccountMap(accounts', FeedAccounts)]
  /\ UNCHANGED <<txns, rules, maps, calls, item, feed>>
  /\ OverlapFrame

\* one iteration of request w's loop up to its db.commit(): the page at the
\* request's cursor is fetched and applied to the rows as they are stored now
OverlapProcess(w) ==
  /\ workers[w].pc = "loop"
  /\ LET Worked(me, resp, st) ==
           [me EXCEPT !.pc = "dirty", !.cursor = resp.next_cursor,
                      !.has_more = resp.has_more, !.seen = Db, !.sess = st.db]
         Fetched(resp) ==
           workers' = [workers EXCEPT ![w] =
             Worked(@, resp,
                    ApplyPage([db |-> Db, added |-> 0, modified |-> 0, removed |-> 0,
                               deleted |-> {}],
                              workers[w].account_map, resp.page, w,
                              [rules |-> Identity(Len(rules)), maps |-> Identity(Len(maps))]))]
     IN Fetched(transactions_sync(feed, workers[w].cursor))
  /\ UNCHANGED <<txns, rules, maps, accounts, calls, item, feed>>
  /\ OverlapFrame

\* the INSERT of a row whose plaid_transaction_id (unique=True) another
\* session has stored since this one looked for it
UniqueClash(stored, loaded, held) ==
  \E k \in 1..Len(held) :
    /\ FindByPlaidId(loaded, held[k].plaid_transaction_id) = 0
    /\ FindByPlaidId(stored, held[k].plaid_transaction_id) # 0

\* the db.commit() that ends the iteration; an IntegrityError ends the
\* request (HTTP 500) and the session's work is rolled back
OverlapCommit(w) ==
  /\ workers[w].pc = "dirty"
  /\ LET Flushed(me) ==
           IF UniqueClash(txns, me.seen.txns, me.sess.txns)
             THEN /\ workers' = [workers EXCEPT ![w].pc = "failed",
                                                ![w].seen = NoBase.db, ![w].sess = NoBase.db]
                  /\ UNCHANGED <<txns, rules, maps, calls>>
             ELSE /\ txns' = FlushTransactions(txns, me.seen.txns, me.sess.txns)
                  /\ rules' = FlushStatistics(rules, me.seen.rules, me.sess.rules)
                  /\ maps' = FlushStatistics(maps, me.seen.maps, me.sess.maps)
                  /\ calls' = calls + (me.sess.calls - me.seen.calls)
                  /\ workers' = [workers EXCEPT
                                   ![w].pc = IF me.has_more THEN "loop" ELSE "finish",
                                   ![w].seen = NoBase.db, ![w].sess = NoBase.db]
     IN Flushed(workers[w])
  /\ UNCHANGED <<accounts, item, feed>>
  /\ OverlapFrame

\* the block after the loop: the request writes its cursor and the sync time
\* to the item and commits
OverlapFinish(w) ==
  /\ workers[w].pc = "finish"
  /\ item' = OnSyncComplete(item, workers[w].cursor, w)
  /\ workers' = [workers EXCEPT ![w].pc = "done", ![w].persisted = workers[w].cursor]
  /\ UNCHANGED <<txns, rules, maps, accounts, calls, feed>>
  /\ OverlapFrame

NextOverlap ==
  \/ OverlapPublish
  \/ \E w \in Requests :
       OverlapStart(w) \/ OverlapProcess(w) \/ OverlapCommit(w) \/ OverlapFinish(w)

SpecOverlap == InitOverlap /\ [][NextOverlap]_vars


\* ------------------------------------------------------------------------
\* The endpoints of /plaid-category-mappings
\* ------------------------------------------------------------------------
\* PlaidCategoryMappingCreate with the schema's defaults for confidence and
\* auto_apply
MappingCreate(primary, detailed, category_id) ==
  Mapping(primary, detailed, category_id, 100, TRUE)

\* request bodies of the create endpoints
MappingData ==
  { MappingCreate(<<"F">>, Null, 1), MappingCreate(<<"F">>, Null, 2),
    MappingCreate(<<"F">>, Coffee, 1), MappingCreate(<<"S">>, Null, 2) }

\* request bodies of POST /bulk
BulkRequests == UNION {[1..n -> MappingData] : n \in 1..MaxBatch}

\* PlaidCategoryMappingUpdate with the fields the request sets
UpdatePool ==
  { [keys |-> {"category_id"}, category_id |-> 1, confidence |-> 0, auto_apply |-> FALSE],
    [keys |-> {"confidence", "auto_apply"}, category_id |-> 0, confidence |-> 50,
     auto_apply |-> FALSE] }

\* the two rows name the same (primary, detailed) pair
SamePair(a, b) ==
  /\ a.plaid_primary_category = b.plaid_primary_category
  /\ a.plaid_detailed_category = b.plaid_detailed_category

\* query(PlaidCategoryMapping).filter(primary == ..., detailed == ...).first()
\* on the stored rows (a comparison with None is rendered IS NULL): index or 0
FindMapping(stored, data) ==
  LET hits == {m \in 1..Len(stored) : SamePair(stored[m], data)}
  IN IF hits = {} THEN 0 ELSE CHOOSE m \in hits : \A o \in hits : m <= o

\* UniqueConstraint uix_plaid_category on the rows: two rows of the same pair
\* violate it unless the detailed code is NULL, NULLs being distinct to it
UniqueViolation(rows) ==
  \E a, b \in 1..Len(rows) :
    a # b /\ SamePair(rows[a], rows[b]) /\ ~IsNull(rows[a].plaid_detailed_category)

\* db.commit() with the pending inserts: an IntegrityError rolls all back and
\* the request ends in HTTP 500
CommitMappings(stored, pending) ==
  IF UniqueViolation(stored \o pending)
    THEN [maps |-> stored, status |-> 500]
    ELSE [maps |-> stored \o pending, status |-> 201]

\* POST /
create_mapping(stored, data) ==
  IF FindMapping(stored, data) # 0
    THEN [maps |-> stored, status |-> 400]
    ELSE CommitMappings(stored, <<data>>)

\* the loop of POST /bulk: the session does not autoflush, so the query sees
\* the stored rows and none of the pending ones; an HTTPException leaves the
\* endpoint before db.commit() and the session is closed with what it holds
RECURSIVE bulk_loop(_, _, _, _)
bulk_loop(stored, pending, req, skip_existing) ==
  IF req = <<>> THEN CommitMappings(stored, pending)
  ELSE IF FindMapping(stored, Head(req)) # 0
    THEN IF skip_existing THEN bulk_loop(stored, pending, Tail(req), skip_existing)
         ELSE [maps |-> stored, status |-> 400]
    ELSE bulk_loop(stored, Append(pending, Head(req)), Tail(req), skip_existing)

\* POST /bulk
create_bulk_mappings(stored, req, skip_existing) == bulk_loop(stored, <<>>, req, skip_existing)

\* PATCH /{mapping_id}: setattr for every field the request sets
update_mapping(stored, id, upd) ==
  IF id > Len(stored) THEN [maps |-> stored, status |-> 404]
  ELSE [maps |-> [stored EXCEPT ![id] =
                    [f \in DOMAIN @ |-> IF f \in upd.keys THEN upd[f] ELSE @[f]]],
        status |-> 200]

\* DELETE /{mapping_id}
delete_mapping(stored, id) ==
  IF id > Len(stored) THEN [maps |-> stored, status |-> 404]
  ELSE [maps |-> [k \in 1..(Len(stored) - 1) |-> IF k < id THEN stored[k] ELSE stored[k + 1]],
        status |-> 204]

\* a request to the mappings endpoints and what it answered
Request(op, mappings, skip_existing, status) ==
  [op |-> op, mappings |-> mappings, skip_existing |-> skip_existing, status |-> status]

InitMappings ==
  /\ InitCommon
  /\ base = NoBase
  /\ workers = <<>>
  /\ accounts = <<>>
  /\ txns = <<>>
  /\ rules = <<>>
  /\ maps \in {<<>>, <<MapFood>>, <<MapFood, MapCoffee>>}

MappingsFrame ==
  UNCHANGED <<workers, txns, rules, accounts, item, feed, pc, cursor, counts, account_map, ret,
              now, calls, fetched, applied, manual, base, hist, edits>>

CreateMapping ==
  /\ ncalls < MaxCalls
  /\ \E data \in MappingData :
       LET Answered(r) ==
             /\ maps' = r.maps
             /\ res' = Request("create", <<data>>, FALSE, r.status)
       IN Answered(create_mapping(maps, data))
  /\ ncalls' = ncalls + 1
  /\ MappingsFrame

CreateBulkMappings ==
  /\ ncalls < MaxCalls
  /\ \E req \in BulkRequests, skip_existing \in BOOLEAN :
       LET Answered(r) ==
             /\ maps' = r.maps
             /\ res' = Request("bulk", req, skip_existing, r.status)
       IN Answered(create_bulk_mappings(maps, req, skip_existing))
  /\ ncalls' = ncalls + 1
  /\ MappingsFrame

UpdateMapping ==
  /\ ncalls < MaxCalls
  /\ \E id \in 1..(Len(maps) + 1), upd \in UpdatePool :
       LET Answered(r) ==
             /\ maps' = r.maps
             /\ res' = Request("update", <<>>, FALSE, r.status)
       IN Answered(update_mapping(maps, id, upd))
  /\ ncalls' = ncalls + 1
  /\ MappingsFrame

DeleteMapping ==
  /\ ncalls < MaxCalls
  /\ \E id \in 1..(Len(maps) + 1) :
       LET Answered(r) ==
             /\ maps' = r.maps
             /\ res' = Request("delete", <<>>, FALSE, r.status)
       IN Answered(delete_mapping(maps, id))
  /\ ncalls' = ncalls + 1
  /\ MappingsFrame

NextMappings == CreateMapping \/ CreateBulkMappings \/ UpdateMapping \/ DeleteMapping

SpecMappings == InitMappings /\ [][NextMappings]_vars


\* ------------------------------------------------------------------------
\* Properties
\* ------------------------------------------------------------------------
\* the step is one iteration of the sync loop run to its commit
SyncPageStep == pc = "loop" /\ fetched' = fetched + 1 /\ ret'.kind # "crash"

\* the step fetched a page, whatever became of it
PageFetchStep == pc = "loop" /\ fetched' = fetched + 1

CurrentPage == transactions_sync(feed', cursor).page

\* C1: in every reachable state at most one Transaction exists for any
\* external id (plaid_transaction_id), whatever pages were applied.
C1_UniqueExternalId ==
  \A i, j \in 1..Len(txns) :
    txns[i].plaid_transaction_id = txns[j].plaid_transaction_id => i = j

\* a page that carries one external id twice has been applied twice and the
\* transaction exists
C1_Witness ==
  \E p \in 1..Len(feed) :
    /\ applied[p] >= 2
    /\ Len(feed[p].added) >= 2
    /\ feed[p].added[1].transaction_id = feed[p].added[2].transaction_id
    /\ FindByPlaidId(txns, feed[p].added[1].transaction_id) # 0

\* C2: applying an added batch whose records all exist already (a second
\* application of the batch) changes no transaction, no rule or mapping
\* statistic, adds 0 to the added count, and leaves exactly one Transaction
\* per external id of the batch.
C2_RedeliveredBatchSkipped ==
  [][ (SyncPageStep /\ Redelivery(CurrentPage)) =>
        /\ txns' = txns
        /\ rules' = rules
        /\ maps' = maps
        /\ counts'.added = counts.added
        /\ \A k \in 1..Len(CurrentPage.added) :
             Cardinality({i \in 1..Len(txns') :
                            txns'[i].plaid_transaction_id = CurrentPage.added[k].transaction_id}) = 1
    ]_vars

\* the last step applied a re-delivered added batch
C2_Witness == hist.redelivered /\ Len(txns) >= 1 /\ \E p \in 1..Len(feed) : applied[p] >= 1

\* C3: when a page fetch fails after at least one page of the call was
\* processed, the persisted cursor is the next_cursor of the last processed page.
C3_CursorAfterFailure ==
  (pc = "idle" /\ ret.kind = "error" /\ fetched >= 1) => item.cursor = ret.cursor

\* C4: the persisted cursor never moves backwards in feed order, whether a
\* sync completes or fails.
C4_CursorMonotonic == [][item'.cursor >= item.cursor]_vars

\* a sync failed after the cursor had been advanced by an earlier sync
C4_Witness == pc = "idle" /\ ret.kind = "error" /\ item.cursor >= 1 /\ item.needs_update


\* what the claims compare of a Transaction
View(t) ==
  [plaid_transaction_id |-> t.plaid_transaction_id, amount |-> t.amount, pending |-> t.pending,
   category_id |-> t.category_id, categorization_method |-> t.categorization_method]

Views(ts) == {View(ts[k]) : k \in 1..Len(ts)}

\* the while loop of sync_transactions run without interruption over the
\* pages from position from up to position to
RECURSIVE ReplayPages(_, _, _, _)
ReplayPages(st, amap, from, to) ==
  IF from >= to THEN st
  ELSE ReplayPages(ApplyPage(st, amap, feed[from + 1], now,
                             [rules |-> Identity(Len(st.db.rules)),
                              maps |-> Identity(Len(st.db.maps))]),
                   amap, from + 1, to)

Uninterrupted ==
  ReplayPages([db |-> base.db, added |-> 0, modified |-> 0, removed |-> 0, deleted |-> {}],
              base.account_map, base.cursor, item.cursor).db.txns

\* C5: an interrupted sync followed by a retry that completes leaves the
\* same Transactions as one uninterrupted sync over the same pages from the
\* same store, and no committed page is applied a second time.
C5_EffectivelyExactlyOnce ==
  /\ (pc = "idle" /\ ret.kind = "ok" /\ base.failed /\ ~base.edited) =>
       Views(txns) = Views(Uninterrupted)
  /\ \A p \in 1..Len(feed) : applied[p] <= 1

\* C6: once the user has set a transaction's category by PATCH, the
\* transaction keeps that category through every later sync page.
C6_ManualEditSticky ==
  \A i \in 1..Len(txns) :
    manual[txns[i].plaid_transaction_id] # NoCategory =>
      txns[i].category_id = manual[txns[i].plaid_transaction_id]

\* the step is a direct call of the Cascade
CascadeStep == calls' = calls + 1 /\ ncalls' = ncalls + 1

\* C7: the Cascade on a transaction with a category and auto_categorized =
\* false changes neither the transaction nor any rule or mapping, and
\* reports no method, on every call.
C7_ManualCategoryKept ==
  [][ (CascadeStep /\ txns[1].category_id # NoCategory /\ ~txns[1].auto_categorized) =>
        /\ txns' = txns
        /\ rules' = rules
        /\ maps' = maps
        /\ res'.result.method = "none"
    ]_vars

\* the Cascade ran twice on a manually categorized transaction
C7_Witness ==
  /\ calls >= 2 /\ res.op = "cascade"
  /\ txns[1].category_id # NoCategory /\ ~txns[1].auto_categorized
  /\ \E r \in 1..Len(rules) : rules[r].active /\ matches_conditions(accounts, txns[1], rules[r])

\* mappings the resolver may return for t: eligible, and none is preferred to it
BestMappings(ms, t) ==
  LET elig == {m \in 1..Len(ms) :
                 /\ ms[m].auto_apply
                 /\ Truthy(t.plaid_primary_category)
                 /\ ms[m].plaid_primary_category = t.plaid_primary_category.s
                 /\ \/ IsNull(ms[m].plaid_detailed_category)
                    \/ ms[m].plaid_detailed_category = t.plaid_detailed_category}
      Preferred(a, b) ==
        \/ ~IsNull(ms[a].plaid_detailed_category) /\ IsNull(ms[b].plaid_detailed_category)
        \/ /\ IsNull(ms[a].plaid_detailed_category) = IsNull(ms[b].plaid_detailed_category)
           /\ ms[a].confidence > ms[b].confidence
  IN {m \in elig : \A o \in elig : ~Preferred(o, m)}

\* active matching rules of highest priority
TopRules(rs, accts, t) ==
  LET matching == {r \in 1..Len(rs) : rs[r].active /\ matches_conditions(accts, t, rs[r])}
  IN {r \in matching : \A o \in matching : rs[o].priority <= rs[r].priority}

\* categories the Cascade may yield for a transaction that is not manually
\* categorized
CascadeCategories(t) ==
  IF BestMappings(maps, t) # {}
    THEN {maps[m].category_id : m \in BestMappings(maps, t)}
  ELSE IF TopRules(rules, accounts, t) # {}
    THEN {apply_actions(t, rules[r].actions).category_id : r \in TopRules(rules, accounts, t)}
  ELSE {t.category_id}

\* C8: a modified record with pending = false for a transaction that is
\* pending and uncategorized runs the Cascade exactly once, on the updated
\* fields, and the transaction ends with the category the Cascade yields.
C8_SettlementRecategorized ==
  [][ (SyncPageStep /\ Settlement(CurrentPage)) =>
        LET rec == CurrentPage.modified[1]
            i == FindByPlaidId(txns, rec.transaction_id)
            updated == [txns[i] EXCEPT !.date = rec.date, !.description = rec.name,
                                       !.payee = PayeeOf(rec), !.amount = -rec.amount,
                                       !.pending = FALSE,
                                       !.plaid_primary_category = rec.primary,
                                       !.plaid_detailed_category = rec.detailed,
                                       !.merchant_name = rec.merchant_name]
        IN /\ calls' = calls + 1
           /\ Len(txns') = Len(txns)
           /\ txns'[i].category_id \in CascadeCategories(updated)
           /\ ~txns'[i].pending
           /\ txns'[i].amount = -rec.amount
    ]_vars

\* the last page settled a pending, uncategorized transaction, which now has
\* a category
C8_Witness ==
  /\ hist.settled
  /\ \E i \in 1..Len(txns) :
       ~txns[i].pending /\ txns[i].category_id # NoCategory /\ txns[i].auto_categorized

\* C9: a second Cascade call right after one that ended with method mapping
\* or rule leaves category, auto_categorized and method as the first call
\* left them (the stored rules and mappings leave the database no choice of order).
C9_SecondCallSame ==
  [][ (/\ CascadeStep
       /\ res.op = "cascade"
       /\ res.result.method \in {"plaid_mapping", "rule"}
       /\ ~RuleTies(rules) /\ ~MapTies(maps)) =>
        /\ txns'[1].category_id = txns[1].category_id
        /\ txns'[1].auto_categorized = txns[1].auto_categorized
        /\ txns'[1].categorization_method = txns[1].categorization_method
    ]_vars

\* the step is a direct call of apply_rules
ApplyRulesStep == ncalls' = ncalls + 1 /\ calls' = calls

\* C10: apply_rules selects the active matching rule of highest priority,
\* returns its actions, applies exactly them when asked to, increments that
\* rule's match count by 1 and stamps it; no other rule changes, and without
\* a match nothing changes.
C10_FirstMatchWins ==
  [][ ApplyRulesStep =>
        LET t == txns[1]
            matching == {r \in 1..Len(rules) :
                           rules[r].active /\ matches_conditions(accounts, t, rules[r])}
            r == res'.rule
        IN IF matching = {}
             THEN ~res'.matched /\ rules' = rules /\ txns' = txns
             ELSE /\ res'.matched
                  /\ r \in matching
                  /\ \A o \in matching : rules[o].priority <= rules[r].priority
                  /\ res'.actions = rules[r].actions
                  /\ rules' = [rules EXCEPT ![r].match_count = @ + 1,
                                            ![r].last_matched_at = now']
                  /\ txns'[1] = IF res'.apply_changes THEN apply_actions(t, rules[r].actions)
                                ELSE t
    ]_vars

\* apply_rules chose between two matching active rules of different
\* priority while an inactive rule was stored
C10_Witness ==
  /\ res.op = "rules" /\ res.matched /\ Len(rules) >= 2
  /\ rules[res.rule].match_count = 1
  /\ \E o \in 1..Len(rules) :
       /\ o # res.rule
       /\ rules[o].match_count = 0
       /\ rules[o].active
       /\ rules[o].priority < rules[res.rule].priority
       /\ matches_conditions(accounts, txns[1], rules[o])

\* C11: when several active rules of the highest matching priority match the
\* transaction, apply_rules selects the one created first (the lowest row),
\* so every run from the same stored state updates the same rule.
C11_TieByCreationOrder ==
  [][ (ApplyRulesStep /\ res'.matched) =>
        \A o \in TopRules(rules, accounts, txns[1]) : res'.rule <= o
    ]_vars

\* the stored transaction is not manually categorized
NotManual(t) == t.category_id = NoCategory \/ t.auto_categorized

C13_MappingBeforeRules ==
  [][ (CascadeStep /\ NotManual(txns[1]) /\ BestMappings(maps, txns[1]) # {}) =>
        /\ rules' = rules
        /\ res'.result.method = "plaid_mapping"
        /\ \E m \in BestMappings(maps, txns[1]) :
             /\ txns' = <<[txns[1] EXCEPT !.category_id = maps[m].category_id,
                                          !.auto_categorized = TRUE,
                                          !.categorization_method = "plaid_mapping"]>>
             /\ maps'[m].match_count = maps[m].match_count + 1
             /\ \A o \in 1..Len(maps) : o # m => maps'[o] = maps[o]
    ]_vars

\* the first Cascade call applied a mapping while an active rule with a
\* set_category action matched the transaction and was not counted
C13_Witness ==
  /\ calls = 1 /\ res.op = "cascade" /\ res.result.method = "plaid_mapping"
  /\ txns[1].categorization_method = "plaid_mapping"
  /\ \E r \in 1..Len(rules) :
       /\ rules[r].active /\ rules[r].match_count = 0
       /\ "set_category" \in rules[r].actions.keys
       /\ matches_conditions(accounts, txns[1], rules[r])

\* the step is a sync call ending in plaid.ApiException: raised by the page
\* fetch of the loop, or by the account refresh
FetchFailStep == pc = "loop" /\ fetched' = fetched /\ edits' = edits

RefreshFailStep == pc = "idle" /\ pc' = "idle" /\ now' = now /\ edits' = edits /\ feed' = feed

\* C14: a remote-feed error in the account refresh or in a page fetch leaves
\* the item with needs_update = true and error_code the error's code, ends
\* the call without another fetch, reaches the caller as an error, and keeps
\* every row committed by the pages processed before it.
C14_FeedErrorFlagsItem ==
  [][ (FetchFailStep \/ RefreshFailStep) =>
        /\ item'.needs_update
        /\ ret'.kind = "error"
        /\ ret'.status \in ApiStatus
        /\ item'.error_code = IntStr(ret'.status)
        /\ pc' = "idle"
        /\ fetched' = IF pc = "loop" THEN fetched ELSE 0
        /\ applied' = applied
        /\ txns' = txns /\ rules' = rules /\ maps' = maps
    ]_vars

\* a page fetch failed after a page of the call had created a transaction
C14_Witness ==
  /\ pc = "idle" /\ ret.kind = "error" /\ fetched >= 1
  /\ \E p \in 1..Len(feed) : applied[p] >= 1
  /\ item.needs_update /\ item.error_code = IntStr(ret.status)
  /\ Len(txns) >= 1

\* C15: when a sync completes, the persisted cursor is the next_cursor of the
\* last page fetched and the cursor returned, needs_update is false,
\* error_code is cleared and last_synced_at is the time of the call.
C15_SuccessClearsFlags ==
  [][ (SyncPageStep /\ pc' = "idle") =>
        /\ ret'.kind = "ok"
        /\ item'.cursor = transactions_sync(feed, cursor).next_cursor
        /\ ret'.cursor = item'.cursor
        /\ ~item'.needs_update
        /\ item'.error_code = <<>>
        /\ item'.last_synced_at = now /\ now >= 1
    ]_vars

\* a sync completed after an earlier attempt had failed and flagged the item
C15_Witness ==
  /\ pc = "idle" /\ ret.kind = "ok" /\ base.failed
  /\ item.cursor >= 1 /\ ret.cursor = item.cursor
  /\ ~item.needs_update /\ item.error_code = <<>>

\* external ids for which the page creates a Transaction: added records of a
\* known account whose id has no Transaction yet
CreatedIds(page) ==
  {page.added[k].transaction_id : k \in {j \in 1..Len(page.added) :
     /\ AccountMapGet(account_map, page.added[j].account_id) # 0
     /\ FindByPlaidId(txns, page.added[j].transaction_id) = 0}}

\* external ids that have a Transaction when the page's modified and removed
\* records are applied
PresentIds(page) == {txns[i].plaid_transaction_id : i \in 1..Len(txns)} \cup CreatedIds(page)

\* modified records of the page that update a Transaction
UpdatedRecords(page) ==
  {k \in 1..Len(page.modified) : page.modified[k].transaction_id \in PresentIds(page)}

\* external ids whose Transaction the page deletes
DeletedIds(page) == {page.removed[k] : k \in 1..Len(page.removed)} \cap PresentIds(page)

\* C16: each page adds to the counts the number of Transactions it created,
\* the number of modified records that updated a Transaction and the number
\* of Transactions it deleted, skipped records adding nothing; a successful
\* sync returns these counts.
C16_CountsAreReal ==
  [][ SyncPageStep =>
        /\ counts'.added = counts.added + Cardinality(CreatedIds(CurrentPage))
        /\ counts'.modified = counts.modified + Cardinality(UpdatedRecords(CurrentPage))
        /\ counts'.removed = counts.removed + Cardinality(DeletedIds(CurrentPage))
        /\ Len(txns') = Len(txns) + Cardinality(CreatedIds(CurrentPage))
                                  - Cardinality(DeletedIds(CurrentPage))
        /\ pc' = "idle" =>
             /\ ret'.added = counts'.added
             /\ ret'.modified = counts'.modified
             /\ ret'.removed = counts'.removed
    ]_vars

\* position of the last modified record of the page for id, or 0
LastModified(page, id) ==
  LET ks == {k \in 1..Len(page.modified) : page.modified[k].transaction_id = id}
  IN IF ks = {} THEN 0 ELSE CHOOSE k \in ks : \A j \in ks : j <= k

\* position of the added record of the page that creates id, or 0
CreatingRecord(page, id) ==
  LET ks == {k \in 1..Len(page.added) :
               /\ page.added[k].transaction_id = id
               /\ AccountMapGet(account_map, page.added[k].account_id) # 0}
  IN IF ks = {} THEN 0 ELSE CHOOSE k \in ks : \A j \in ks : k <= j

\* C17: after a page every Transaction's amount is the negation of the amount
\* of the last feed record the page applied to it: its last modified record,
\* else the added record that created it; a Transaction the page did not
\* touch keeps its amount.
C17_SignNormalized ==
  [][ SyncPageStep =>
        \A i \in 1..Len(txns') :
          LET id == txns'[i].plaid_transaction_id
              m == LastModified(CurrentPage, id)
              a == CreatingRecord(CurrentPage, id)
              old == FindByPlaidId(txns, id)
          IN IF m # 0 THEN txns'[i].amount = -CurrentPage.modified[m].amount
             ELSE IF old = 0 THEN a # 0 /\ txns'[i].amount = -CurrentPage.added[a].amount
             ELSE txns'[i].amount = txns[old].amount
    ]_vars

\* a Transaction created with the amount of its added record has taken the
\* amount of a later modified record
C17_Witness ==
  /\ hist.settled
  /\ \E i \in 1..Len(txns) :
       /\ txns[i].plaid_transaction_id = RecSettled.transaction_id
       /\ txns[i].amount = -RecSettled.amount
       /\ txns[i].amount # -RecPending.amount

\* added records of the page whose account is not in the account map
OrphanRecords(page) ==
  {k \in 1..Len(page.added) : AccountMapGet(account_map, page.added[k].account_id) = 0}

\* C18: a page with an added record of an unknown account creates no
\* Transaction and no Account for it and does not count it, still processes
\* the other added records, and does not fail; every Transaction references
\* an Account of the account map.
C18_UnknownAccountSkipped ==
  [][ (SyncPageStep /\ OrphanRecords(CurrentPage) # {}) =>
        /\ accounts' = accounts
        /\ \A k \in OrphanRecords(CurrentPage) :
             (/\ CurrentPage.added[k].transaction_id \notin CreatedIds(CurrentPage)
              /\ FindByPlaidId(txns, CurrentPage.added[k].transaction_id) = 0)
             => FindByPlaidId(txns', CurrentPage.added[k].transaction_id) = 0
        /\ counts'.added = counts.added + Cardinality(CreatedIds(CurrentPage))
        /\ \A k \in (1..Len(CurrentPage.added)) \ OrphanRecords(CurrentPage) :
             CurrentPage.added[k].transaction_id \notin DeletedIds(CurrentPage)
             => FindByPlaidId(txns', CurrentPage.added[k].transaction_id) # 0
        /\ pc' = "idle" => ret'.kind = "ok"
        /\ \A i \in 1..Len(txns') :
             \E a \in 1..Len(accounts) :
               /\ accounts[a].id = txns'[i].account_id
               /\ accounts[a].plaid_account_id \in DOMAIN account_map
    ]_vars

\* a sync applied a page whose first added record has an unknown account:
\* the record after it was stored and counted, the orphan was not
C18_Witness ==
  /\ pc = "idle" /\ ret.kind = "ok" /\ ret.added = 1
  /\ \E p \in 1..Len(feed) :
       /\ applied[p] >= 1
       /\ Len(feed[p].added) = 2
       /\ feed[p].added[1] = RecOrphan
       /\ FindByPlaidId(txns, feed[p].added[1].transaction_id) = 0
       /\ FindByPlaidId(txns, feed[p].added[2].transaction_id) # 0

\* the page has modified records, none of which has a Transaction
UnknownModified(page) ==
  /\ page.modified # <<>>
  /\ \A k \in 1..Len(page.modified) : page.modified[k].transaction_id \notin PresentIds(page)

\* the page has removed ids, none of which has a Transaction
UnknownRemoved(page) ==
  /\ page.removed # <<>>
  /\ \A k \in 1..Len(page.removed) : page.removed[k] \notin PresentIds(page)

\* C19: modified records without a Transaction create and update nothing,
\* leave the modified count alone and do not invoke the Cascade; removed ids
\* without a Transaction delete nothing and leave the removed count alone;
\* the sync goes on without error.
C19_UnknownIdIsNoOp ==
  [][ SyncPageStep =>
        /\ UnknownModified(CurrentPage) =>
             /\ counts'.modified = counts.modified
             /\ calls' = calls + Cardinality(CreatedIds(CurrentPage))
             /\ Len(txns') = Len(txns) + Cardinality(CreatedIds(CurrentPage))
                                       - Cardinality(DeletedIds(CurrentPage))
             /\ CurrentPage.added = <<>> => rules' = rules /\ maps' = maps
        /\ UnknownRemoved(CurrentPage) =>
             /\ counts'.removed = counts.removed
             /\ \A i \in 1..Len(txns) : FindByPlaidId(txns', txns[i].plaid_transaction_id) # 0
        /\ (/\ CurrentPage.added = <<>>
            /\ CurrentPage.modified = <<>> \/ UnknownModified(CurrentPage)
            /\ CurrentPage.removed = <<>> \/ UnknownRemoved(CurrentPage)) =>
             txns' = txns /\ counts' = counts /\ calls' = calls
        /\ (UnknownModified(CurrentPage) \/ UnknownRemoved(CurrentPage)) =>
             /\ pc' = "idle" => ret'.kind = "ok"
             /\ pc' = "loop" => ret' = ret
    ]_vars

\* a sync applied a page of a modified record and a page of removed ids for
\* a transaction that was never stored
C19_Witness ==
  /\ pc = "idle" /\ ret.kind = "ok" /\ ret.modified = 0 /\ ret.removed = 0
  /\ \E p, q \in 1..Len(feed) :
       /\ applied[p] = 1 /\ applied[q] = 1
       /\ feed[p].added = <<>> /\ feed[p].modified # <<>>
       /\ feed[q].removed # <<>>
       /\ FindByPlaidId(txns, feed[p].modified[1].transaction_id) = 0
       /\ FindByPlaidId(txns, feed[q].removed[1]) = 0
  /\ Len(txns) = ret.added

\* truth of a leaf or of a composite of leaves for the stored transaction
HoldsFlat(c) ==
  CASE c.type = "all" ->
         \A k \in 1..Len(c.children) : evaluate_condition(accounts, txns[1], c.children[k])
    [] c.type = "any" ->
         \E k \in 1..Len(c.children) : evaluate_condition(accounts, txns[1], c.children[k])
    [] OTHER -> evaluate_condition(accounts, txns[1], c)

\* truth of a condition whose children are leaves or composites of leaves
Holds(c) ==
  CASE c.type = "all" -> \A k \in 1..Len(c.children) : HoldsFlat(c.children[k])
    [] c.type = "any" -> \E k \in 1..Len(c.children) : HoldsFlat(c.children[k])
    [] OTHER -> evaluate_condition(accounts, txns[1], c)

\* C20: an all composite is true iff every child is true and an any
\* composite iff some child is true, through nested composites; an empty
\* all is true and an empty any is false.
C20_ConditionComposition ==
  res.op = "test" => res.matched = Holds(rules[1].conditions)

\* all[any[A, B], all[]] was found true with one of A, B true and the other false
C20_Witness ==
  /\ res.op = "test" /\ res.matched
  /\ LET c == rules[1].conditions
     IN /\ c.type = "all" /\ Len(c.children) = 2
        /\ c.children[1].type = "any" /\ Len(c.children[1].children) = 2
        /\ c.children[2] = AllOf(<<>>)
        /\ evaluate_condition(accounts, txns[1], c.children[1].children[1])
        /\ ~evaluate_condition(accounts, txns[1], c.children[1].children[2])


\* C21: a rule whose stored conditions do not load is taken as not matching:
\* a page during which it is evaluated is processed to its commit (the call is
\* not aborted), and every added record of a known account that the page does
\* not remove again is a Transaction afterwards.
C21_MalformedRuleSkipped ==
  [][ PageFetchStep =>
        /\ ret'.kind # "crash"
        /\ \A k \in 1..Len(CurrentPage.added) :
             (/\ AccountMapGet(account_map, CurrentPage.added[k].account_id) # 0
              /\ \A j \in 1..Len(CurrentPage.removed) :
                   CurrentPage.removed[j] # CurrentPage.added[k].transaction_id)
             => FindByPlaidId(txns', CurrentPage.added[k].transaction_id) # 0
    ]_vars


\* the rules whose statistics the step advanced
MatchedRules == {r \in 1..Len(rules) : rules'[r].match_count = rules[r].match_count + 1}

\* the action set names a category that does not exist
UnknownCategory(actions) ==
  /\ "set_category" \in actions.keys
  /\ actions.set_category.k = "str"
  /\ CategoryByName(actions.set_category.s) = NoCategory

\* C22: when the matched rule's set_category names a category that does not
\* exist, the transaction keeps its category, its auto_categorized flag and
\* its categorization method, and the Cascade does not report it as
\* categorized by a rule.
C22_UnknownCategoryNoOp ==
  [][ (CascadeStep /\ \E r \in MatchedRules : UnknownCategory(rules[r].actions)) =>
        /\ txns'[1].category_id = txns[1].category_id
        /\ txns'[1].auto_categorized = txns[1].auto_categorized
        /\ txns'[1].categorization_method = txns[1].categorization_method
        /\ res'.result.method # "rule"
    ]_vars

\* every sync call of the parallel run has returned
AllDone == Len(workers) > 0 /\ \A w \in 1..Len(workers) : workers[w].pc = "done"

\* classifications of all the calls together that selected row k of the table
TotalHits(table, k) ==
  LET S[w \in 0..Len(workers)] == IF w = 0 THEN 0 ELSE S[w - 1] + workers[w].hits[table][k]
  IN S[Len(workers)]

\* C23: when syncs of different items ran in parallel, every rule's and every
\* mapping's match count is higher than before by the number of
\* classifications that selected it, whatever the interleaving was.
C23_NoLostStatistics ==
  AllDone =>
    /\ \A r \in 1..Len(rules) :
         rules[r].match_count = base.db.rules[r].match_count + TotalHits("rules", r)
    /\ \A m \in 1..Len(maps) :
         maps[m].match_count = base.db.maps[m].match_count + TotalHits("maps", m)

\* sync_transactions of item w run alone over the pages fd, from the store db
\* and the cursor given, to the return of the call
RECURSIVE RunSync(_, _, _, _, _)
RunSync(db, amap, fd, cur, w) ==
  IF cur >= Len(fd) THEN db
  ELSE RunSync(ApplyPage([db |-> db, added |-> 0, modified |-> 0, removed |-> 0, deleted |-> {}],
                         amap, transactions_sync(fd, cur).page, w,
                         [rules |-> Identity(Len(db.rules)), maps |-> Identity(Len(db.maps))]).db,
               amap, fd, transactions_sync(fd, cur).next_cursor, w)

SyncAlone(db, w) ==
  LET Begun(db1) ==
        RunSync(db1, AccountMap(db1.accounts, ItemAccounts[w]), workers[w].feed, 0, w)
  IN Begun([db EXCEPT !.accounts = get_accounts(@, ItemAccounts[w])])

\* the calls one after the other in the order given
RECURSIVE InTurn(_, _)
InTurn(db, order) ==
  IF order = <<>> THEN db ELSE InTurn(SyncAlone(db, Head(order)), Tail(order))

Orders ==
  {o \in [1..Len(workers) -> 1..Len(workers)] : \A a, b \in DOMAIN o : o[a] = o[b] => a = b}

\* the Transactions with their account named by its external id
ExtRows(db) ==
  {[db.txns[k] EXCEPT !.account_id = db.accounts[@].plaid_account_id] : k \in 1..Len(db.txns)}

\* C26: syncs of two items with disjoint external account ids and external
\* transaction ids commute: whatever the interleaving of their page steps
\* and commits, the Transactions and each item's persisted cursor are those
\* of the two syncs run one after the other, in either order.
C26_DisjointItemsCommute ==
  AllDone =>
    \A o \in Orders :
      /\ ExtRows(Db) = ExtRows(InTurn([base.db EXCEPT !.accounts = <<>>], o))
      /\ \A w \in 1..Len(workers) :
           workers[w].persisted = transactions_sync(workers[w].feed,
                                                    Len(workers[w].feed) - 1).next_cursor

\* both calls have returned, both left Transactions, and their steps did
\* overlap: one commit wrote statistics over the other's
C26_Witness ==
  /\ AllDone
  /\ \A w \in 1..Len(workers) :
       \E k \in 1..Len(txns) : txns[k].account_id = workers[w].account_map[ItemAccounts[w][1].account_id]
  /\ \E r \in 1..Len(rules) : rules[r].match_count < TotalHits("rules", r)

\* C24: whatever create, bulk create, update and delete requests were made,
\* at most one mapping exists per (primary, detailed) pair, a mapping without
\* detailed code being a pair of its own.
C24_UniquePair ==
  \A a, b \in 1..Len(maps) : SamePair(maps[a], maps[b]) => a = b

\* the step is a POST /bulk request
BulkStep == ncalls' = ncalls + 1 /\ res'.op = "bulk"

\* rows of the pair of data that the step inserted
CreatedBy(data) == {m \in (Len(maps) + 1)..Len(maps') : SamePair(maps'[m], data)}

\* C25: a bulk import with skip_existing skips every tuple whose pair exists,
\* leaving the existing mapping as it was, and creates every other tuple;
\* without skip_existing a tuple whose pair exists rejects the request and
\* nothing of the request is persisted.
C25_BulkImport ==
  [][BulkStep =>
       LET req == res'.mappings
           Exists(k) == FindMapping(maps, req[k]) # 0
       IN IF res'.skip_existing
            THEN /\ SubSeq(maps', 1, Len(maps)) = maps
                 /\ \A k \in 1..Len(req) :
                      IF Exists(k) THEN CreatedBy(req[k]) = {} ELSE CreatedBy(req[k]) # {}
            ELSE (\E k \in 1..Len(req) : Exists(k)) => res'.status = 400 /\ maps' = maps]_vars

\* the step is the account refresh that begins a sync call
RefreshStep == pc = "idle" /\ pc' = "loop"

\* C27: the account refresh is find-or-create by external account id: an
\* account the feed lists is created only when no row has its
\* plaid_account_id, otherwise the row is updated in place (same row, name
\* refreshed, is_active true); at most one Account exists per external id.
C27_FindOrCreate ==
  [][/\ \A a, b \in 1..Len(accounts') :
          accounts'[a].plaid_account_id = accounts'[b].plaid_account_id => a = b
     /\ RefreshStep =>
          \A k \in 1..Len(FeedAccounts) :
            LET Refreshed(pa, a) ==
                  IF a # 0
                    THEN /\ accounts'[a] = [accounts[a] EXCEPT !.name = pa.name,
                                                               !.is_active = TRUE]
                         /\ FindAccount(accounts', pa.account_id) = a
                    ELSE /\ FindAccount(accounts', pa.account_id) > Len(accounts)
                         /\ accounts'[FindAccount(accounts', pa.account_id)].name = pa.name
                         /\ accounts'[FindAccount(accounts', pa.account_id)].is_active
            IN Refreshed(FeedAccounts[k], FindAccount(accounts, FeedAccounts[k].account_id))]_vars

\* the second sync call has refreshed the account the first one left
C27_Witness ==
  /\ pc = "loop" /\ now = 2 /\ fetched = 0
  /\ Len(accounts) = 1 /\ accounts[1].is_active /\ accounts[1].name = FeedAccounts[1].name

C29_CursorBeforeNextFetch ==
  (pc = "loop" /\ fetched >= 1) => item.cursor = cursor

\* the step is a sync iteration over a page of one modified record
ModifiedStep == ncalls' = ncalls + 1 /\ res'.op = "modified"

\* the fields of the record as the modified branch stores them
Updated(t, rec) ==
  [t EXCEPT !.date = rec.date, !.description = rec.name, !.payee = PayeeOf(rec),
            !.amount = -rec.amount, !.pending = rec.pending,
            !.plaid_primary_category = rec.primary,
            !.plaid_detailed_category = rec.detailed,
            !.merchant_name = rec.merchant_name]

\* C30: for a modified record of an existing Transaction the Cascade is
\* invoked if and only if the transaction was pending and the record is not,
\* or the transaction has no category; otherwise only the fields copied from
\* the record change, and category, auto_categorized, method and the rules'
\* and mappings' statistics stay as they were, whatever the record's
\* taxonomy codes are.
C30_CascadeOnlyWhenSettledOrBare ==
  [][ModifiedStep =>
       LET Known(rec, i) ==
             i # 0 =>
               LET due == (txns[i].pending /\ ~rec.pending) \/ txns[i].category_id = NoCategory
               IN /\ calls' = IF due THEN calls + 1 ELSE calls
                  /\ ~due => /\ txns' = [txns EXCEPT ![i] = Updated(@, rec)]
                             /\ rules' = rules
                             /\ maps' = maps
       IN Known(res'.rec, FindByPlaidId(txns, res'.rec.transaction_id))]_vars

\* a categorized, settled transaction was updated by a record whose taxonomy
\* codes name a mapping to another category, and no Cascade ran
C30_Witness ==
  /\ res.op = "modified" /\ calls = 0 /\ Len(txns) = 1
  /\ txns[1].plaid_transaction_id = res.rec.transaction_id
  /\ txns[1].plaid_primary_category = res.rec.primary
  /\ txns[1].category_id # NoCategory /\ ~ManuallyCategorized(txns[1])
  /\ \E m \in 1..Len(maps) :
       /\ maps[m].auto_apply
       /\ maps[m].plaid_primary_category = txns[1].plaid_primary_category.s
       /\ IsNull(maps[m].plaid_detailed_category)
       /\ maps[m].category_id # txns[1].category_id

\* active rules whose conditions the stored transaction meets
MatchingRules == {r \in 1..Len(rules) : rules[r].active /\ matches_conditions(accounts, txns[1], rules[r])}

\* C31: for a transaction that is not manually categorized and has no
\* mapping candidate, the Cascade reports method rule if and only if an
\* active rule matched and the first matching rule's actions contain
\* set_category; otherwise it reports no method, and category,
\* auto_categorized and method of the transaction are as before the call.
C31_RuledIffSetCategory ==
  [][ (CascadeStep /\ NotManual(txns[1]) /\ BestMappings(maps, txns[1]) = {}) =>
        /\ (MatchedRules = {}) = (MatchingRules = {})
        /\ MatchedRules \subseteq TopRules(rules, accounts, txns[1])
        /\ (res'.result.method = "rule") =
             (\E r \in MatchedRules : "set_category" \in rules[r].actions.keys)
        /\ res'.result.method # "rule" =>
             /\ res'.result.method = "none"
             /\ txns'[1].category_id = txns[1].category_id
             /\ txns'[1].auto_categorized = txns[1].auto_categorized
             /\ txns'[1].categorization_method = txns[1].categorization_method
    ]_vars

\* the first Cascade call matched a rule without set_category: the rule is
\* counted and its payee applied, and the Cascade reported no method
C31_Witness ==
  /\ calls = 1 /\ res.op = "cascade" /\ res.result.method = "none"
  /\ txns[1].category_id = NoCategory /\ ~txns[1].auto_categorized
  /\ txns[1].payee = Str_x
  /\ \E r \in 1..Len(rules) :
       /\ rules[r].match_count = 1
       /\ "set_category" \notin rules[r].actions.keys

\* the step is a sync iteration over one page of OrderPages
PageStep == ncalls' = ncalls + 1 /\ res'.op = "page"

\* the fields a feed record gives a Transaction
SameFields(t, rec) ==
  /\ t.date = rec.date /\ t.description = rec.name /\ t.amount = -rec.amount
  /\ t.pending = rec.pending
  /\ t.plaid_primary_category = rec.primary /\ t.plaid_detailed_category = rec.detailed

\* position of the first added record of the page for id with an account the
\* item lists, or 0
FirstAdded(page, id) ==
  LET ks == {k \in 1..Len(page.added) :
               /\ page.added[k].transaction_id = id
               /\ FindAccount(accounts, page.added[k].account_id) # 0}
  IN IF ks = {} THEN 0 ELSE CHOOSE k \in ks : \A j \in ks : k <= j

\* C32: within a page all added records are applied before all modified
\* records and these before all removed ids, each list in feed order: an id
\* the page adds and removes ends absent, an id it adds and modifies ends
\* with the fields of its last modified record.
C32_ListsInOrder ==
  [][PageStep =>
       \A id \in ExtIds :
         LET Ordered(page, before, after) ==
               LET created == before = 0 /\ FirstAdded(page, id) # 0
                   present == before # 0 \/ created
                   removed == \E k \in 1..Len(page.removed) : page.removed[k] = id
               IN IF ~present \/ removed THEN after = 0
                  ELSE /\ after # 0
                       /\ LastModified(page, id) # 0 =>
                            SameFields(txns'[after], page.modified[LastModified(page, id)])
                       /\ (LastModified(page, id) = 0 /\ created) =>
                            SameFields(txns'[after], page.added[FirstAdded(page, id)])
                       /\ (LastModified(page, id) = 0 /\ ~created) =>
                            SameFields(txns'[after], [date |-> txns[before].date,
                                                      name |-> txns[before].description,
                                                      amount |-> -txns[before].amount,
                                                      pending |-> txns[before].pending,
                                                      primary |-> txns[before].plaid_primary_category,
                                                      detailed |-> txns[before].plaid_detailed_category])
         IN Ordered(res'.page, FindByPlaidId(txns, id), FindByPlaidId(txns', id))]_vars

\* a page that added and removed t2 was applied and t2 is absent, after a page
\* that added and modified t1 left t1 with its last modified record's fields
C32_Witness ==
  /\ ncalls = 2 /\ res.op = "page"
  /\ res.page = Page(<<RecShop>>, <<>>, <<"t2">>)
  /\ counts.added = 2 /\ counts.modified = 2 /\ counts.removed = 1
  /\ FindByPlaidId(txns, "t2") = 0
  /\ Len(txns) = 1 /\ SameFields(txns[1], RecHeld)

\* ------------------------------------------------------------------------
\* C33: when the feed answers every fetch, a sync call fetches the pages one
\* after another, the first at the persisted cursor and each later one at the
\* next_cursor of the page before it, goes on exactly while has_more is true,
\* and ends successfully with the page that reports has_more = false.
\* ------------------------------------------------------------------------
C33_FetchesUntilNoMore ==
  [][ (pc = "loop" /\ fetched' = fetched + 1) =>
        LET Answered(resp) ==
              /\ fetched = 0 => cursor = item.cursor
              /\ cursor' = resp.next_cursor
              /\ resp.has_more => pc' = "loop"
              /\ ~resp.has_more => pc' = "idle" /\ ret'.kind = "ok" /\ ret'.cursor = resp.next_cursor
        IN Answered(transactions_sync(feed', cursor))
    ]_vars

\* the step is a sync call that ends in the account refresh: no call is
\* between pages before or after it, nothing was edited or published
RefreshFails == pc = "idle" /\ pc' = "idle" /\ edits' = edits /\ Len(feed') = Len(feed)

\* C34: a page is fetched only by a call whose account refresh has completed
\* (every account the feed lists has its row and its entry in account_map);
\* a call whose refresh fails with a feed error fetches no page, leaves every
\* Transaction and the persisted cursor as they were, and reports the error.
C34_RefreshBeforeFetch ==
  [][/\ fetched' # fetched /\ fetched' # 0 =>
          /\ pc = "loop"
          /\ \A k \in 1..Len(FeedAccounts) :
               /\ FindAccount(accounts, FeedAccounts[k].account_id) # 0
               /\ AccountMapGet(account_map, FeedAccounts[k].account_id)
                    = FindAccount(accounts, FeedAccounts[k].account_id)
     /\ RefreshFails =>
          /\ fetched' = 0 /\ feed' = feed /\ applied' = applied
          /\ txns' = txns
          /\ item'.cursor = item.cursor
          /\ ret'.kind = "error" /\ item'.needs_update]_vars

\* the second call failed in its account refresh, after the first had stored
\* transactions and advanced the cursor
C34_Witness ==
  /\ pc = "idle" /\ ret.kind = "error" /\ fetched = 0 /\ now = 1
  /\ item.cursor >= 1 /\ txns # <<>> /\ item.needs_update

\* the step is a direct call of apply_rules with apply_changes = false
DryRunStep == ApplyRulesStep /\ res'.op = "rules" /\ ~res'.apply_changes

\* C35: a dry run of apply_rules leaves the transaction (and every mapping)
\* as it was; when an active rule matches it returns the actions of a matching
\* rule of highest priority, increments that rule's match count by 1 and sets
\* its last-matched time to the time of the call, and changes no other rule;
\* without a match it returns nothing and changes nothing.
C35_DryRun ==
  [][ DryRunStep =>
        /\ txns' = txns
        /\ maps' = maps
        /\ res'.matched = (MatchingRules # {})
        /\ IF res'.matched
             THEN /\ res'.rule \in TopRules(rules, accounts, txns[1])
                  /\ res'.actions = rules[res'.rule].actions
                  /\ rules' = [rules EXCEPT ![res'.rule].match_count = @ + 1,
                                            ![res'.rule].last_matched_at = now']
                  /\ now' > now
             ELSE rules' = rules /\ res'.actions = NoActions
    ]_vars

\* the first call was a dry run that matched a rule whose actions would have
\* changed the transaction: the rule is counted, the transaction is untouched
C35_Witness ==
  /\ ncalls = 1 /\ res.op = "rules" /\ ~res.apply_changes /\ res.matched
  /\ rules[res.rule].match_count = 1 /\ rules[res.rule].last_matched_at = now
  /\ "set_category" \in res.actions.keys
  /\ apply_actions(txns[1], res.actions) # txns[1]
  /\ txns[1].category_id = NoCategory

\* the leaf under test and the value its field resolves to
TestedLeaf == rules[1].conditions

Resolved == get_field_value(accounts, txns[1], TestedLeaf.field)

\* C36: a leaf whose field resolves to nothing (an attribute the transaction
\* does not have, an attribute that is null, a dotted path through a missing
\* related row) is true exactly when its operator is equals and its value is
\* null; not_equals, a non-null value and every other operator give false.
C36_UnresolvedField ==
  (res.op = "leaf" /\ TestedLeaf.field # "" /\ IsNull(Resolved)) =>
    /\ ~res.raised
    /\ res.matched = (TestedLeaf.operator = "equals" /\ IsNull(TestedLeaf.value))

\* account.name equals null was found true for a transaction whose account
\* row is missing
C36_Witness ==
  /\ res.op = "leaf" /\ res.matched /\ accounts = <<>>
  /\ TestedLeaf = Leaf("account.name", "equals", Null)

\* the regex engine does not accept the leaf's pattern
PatternRefused(v) ==
  ~IsNull(v) /\ (RegexInvalid(Lower(PyStr(v))) \/ RegexOverflows(Lower(PyStr(v))))

\* C37: testing a leaf returns a boolean and raises nothing; the leaf is false
\* when its regex pattern is not accepted by the regex engine, when its
\* operator is numeric and the field's value or the leaf's value is not a
\* number, when it has no field or no operator, and when its operator is not
\* one the engine knows.
C37_EvaluatorTotal ==
  res.op = "leaf" =>
    /\ ~res.raised
    /\ (TestedLeaf.operator = "regex" /\ PatternRefused(TestedLeaf.value)) => ~res.matched
    /\ (/\ TestedLeaf.operator \in NumericOperators
        /\ ~PyFloat(Resolved).ok \/ ~PyFloat(TestedLeaf.value).ok) => ~res.matched
    /\ (TestedLeaf.field = "" \/ TestedLeaf.operator = "") => ~res.matched
    /\ TestedLeaf.operator \notin StringOperators \cup NumericOperators => ~res.matched

\* the step is a sync iteration that an exception ended before its commit
FailedPageStep == ncalls' = ncalls + 1 /\ res'.op = "atomic" /\ res'.raised

\* C38: a page whose processing fails before the page's commit leaves no
\* Transaction created or changed: the transactions table is as it was when
\* the page was fetched.
C38_PageAtomic == [][FailedPageStep => txns' = txns]_vars

\* both requests have finished successfully
BothDone == \A w \in Requests : workers[w].pc = "done"

\* the later of the two final feed positions
LaterPosition ==
  IF workers[1].persisted >= workers[2].persisted
    THEN workers[1].persisted ELSE workers[2].persisted

\* C39: while two sync requests for one item overlap, no external id has two
\* Transactions, and once both have finished the item's persisted cursor is
\* the later of the two positions they reached.
C39_OverlappingSyncs ==
  /\ \A i, j \in 1..Len(txns) :
       txns[i].plaid_transaction_id = txns[j].plaid_transaction_id => i = j
  /\ BothDone => item.cursor = LaterPosition

\* C40: every Transaction flagged auto_categorized has a category and the
\* categorization method plaid_mapping or rule.
C40_AutoFlagConsistent ==
  \A k \in 1..Len(txns) :
    txns[k].auto_categorized =>
      /\ txns[k].category_id # NoCategory
      /\ txns[k].categorization_method \in {"plaid_mapping", "rule"}

============================================================================
